---- MODULE Spec2Model ----
(***************************************************************************)
(* Model of the interactive setup wizard of src/cli/main.py: the           *)
(* SetupProgress record, the ProgressManager (save / load / clear of the   *)
(* progress file), the step sequencer InteractiveSetup.start and the       *)
(* eight step handlers, prompt by prompt.                                  *)
(*                                                                         *)
(* Spec is the wizard on a storage that works, SpecIO the wizard on a      *)
(* storage that can fail.  SpecStore is the ProgressManager alone on any   *)
(* content of the progress file, SpecName the project-name prompt on any   *)
(* typed line and SpecUrl the fork-URL prompt of step 1 on any typed line. *)
(*                                                                         *)
(* Strings are sequences of symbols.  A symbol is a one-character string   *)
(* ("a", "-", " ") or a literal of the source taken as one unit            *)
(* ("polar_oat_", "https://vercel.com/").                                  *)
(***************************************************************************)
EXTENDS Integers, Sequences, FiniteSets, TLC

VARIABLES
    progress,       \* self.progress: the in-memory SetupProgress
    progress_file,  \* content of PROGRESS_FILE on disk
    env_prod,       \* content of .env.prod
    env_local,      \* content of .env
    pc,             \* position of the process: "idle" (not running) or a prompt
    locals,         \* local variables of the running handler: answers
                    \* given so far, the line typed, the result of a call
    exit_code,      \* exit status of the last process (-1: none yet / running)
    runs,           \* number of processes launched so far
    faults,         \* storage faults and interrupts inside a save still to come
    entered,        \* history: progress_file when the running handler (or
                    \* store operation) was invoked
    resumed         \* history: progress_file when the operator chose resume

vars == <<progress, progress_file, env_prod, env_local, pc, locals,
          exit_code, runs, faults, entered, resumed>>

\* ------------------------------------------------------------------ bounds
MaxRuns == 3
MaxFaults == 1
MaxServices == 2
MaxLen == 5
MaxUrlLen == 6
MaxTyped == 4
MaxNum == 2
MaxAmount == 12

\* --------------------------------------------------------------- constants
total_steps == 8

\* ----------------------------------------------------------------- strings
EmptyMap == [k \in {} |-> <<>>]

Put(m, k, v) == [x \in (DOMAIN m) \cup {k} |-> IF x = k THEN v ELSE m[x]]

Get(m, k, d) == IF k \in DOMAIN m THEN m[k] ELSE d

Lower(c) ==
    CASE c = "A" -> "a"
      [] c = "B" -> "b"
      [] c = "Y" -> "y"
      [] c = "N" -> "n"
      [] c = "U" -> "u"
      [] c = "S" -> "s"
      [] c = "D" -> "d"
      [] c = "E" -> "e"
      [] c = "R" -> "r"
      [] OTHER -> c

Upper(c) ==
    CASE c = "a" -> "A"
      [] c = "b" -> "B"
      [] c = "y" -> "Y"
      [] c = "n" -> "N"
      [] c = "u" -> "U"
      [] c = "s" -> "S"
      [] c = "d" -> "D"
      [] c = "e" -> "E"
      [] c = "r" -> "R"
      [] OTHER -> c

LowerStr(s) == [i \in 1..Len(s) |-> Lower(s[i])]

UpperStr(s) == [i \in 1..Len(s) |-> Upper(s[i])]

\* The white space str.strip() removes.
Whitespace == {" ", "\n"}

RECURSIVE LStrip(_)
LStrip(s) == IF s # <<>> /\ Head(s) \in Whitespace THEN LStrip(Tail(s)) ELSE s

RECURSIVE RStrip(_)
RStrip(s) ==
    IF s # <<>> /\ s[Len(s)] \in Whitespace
    THEN RStrip(SubSeq(s, 1, Len(s) - 1)) ELSE s

Strip(s) == RStrip(LStrip(s))

StartsWith(s, p) == Len(s) >= Len(p) /\ SubSeq(s, 1, Len(p)) = p

EndsWith(s, p) ==
    Len(s) >= Len(p) /\ SubSeq(s, Len(s) - Len(p) + 1, Len(s)) = p

Contains(s, p) ==
    \E i \in 1..(Len(s) - Len(p) + 1) : SubSeq(s, i, i + Len(p) - 1) = p

Replace(s, old, new) == [i \in 1..Len(s) |-> IF s[i] = old THEN new ELSE s[i]]

SlugChars == {"a", "b", "y", "n", "1", "-"}

\* Mutant: only the first special character is removed (count=1).
RECURSIVE RemoveFirstSpecial(_)
RemoveFirstSpecial(s) ==
    IF s = <<>> THEN <<>>
    ELSE IF Head(s) \in SlugChars THEN <<Head(s)>> \o RemoveFirstSpecial(Tail(s))
    ELSE Tail(s)

\* re.sub(r'[^a-z0-9-]', '', s)
RECURSIVE RemoveSpecial(_)
RemoveSpecial(s) ==
    IF s = <<>> THEN <<>>
    ELSE IF Head(s) \in SlugChars THEN <<Head(s)>> \o RemoveSpecial(Tail(s))
    ELSE RemoveSpecial(Tail(s))

RECURSIVE LStripHyphens(_)
LStripHyphens(s) ==
    IF s # <<>> /\ Head(s) = "-" THEN LStripHyphens(Tail(s)) ELSE s

RECURSIVE RStripHyphens(_)
RStripHyphens(s) ==
    IF s # <<>> /\ s[Len(s)] = "-"
    THEN RStripHyphens(SubSeq(s, 1, Len(s) - 1)) ELSE s

\* re.sub(r'^-+|-+$', '', s)
StripHyphens(s) == RStripHyphens(LStripHyphens(s))

\* Mutant: a run of hyphens is removed altogether (r'-+' replaced by '').
RECURSIVE DropHyphens(_)
DropHyphens(s) ==
    IF s = <<>> THEN <<>>
    ELSE IF Head(s) = "-" THEN DropHyphens(Tail(s))
    ELSE <<Head(s)>> \o DropHyphens(Tail(s))

\* re.sub(r'-+', '-', s)
RECURSIVE CollapseHyphens(_)
CollapseHyphens(s) ==
    IF Len(s) < 2 THEN s
    ELSE IF s[1] = "-" /\ s[2] = "-" THEN CollapseHyphens(Tail(s))
    ELSE <<Head(s)>> \o CollapseHyphens(Tail(s))

\* Mutant: the conversion without the removal of special characters.
KebabCaseKeepsSpecial(s) ==
    CollapseHyphens(StripHyphens(Replace(Replace(LowerStr(s), " ", "-"), "_", "-")))

\* Mutant: the conversion without the removal of the outer hyphens.
KebabCaseKeepsOuterHyphens(s) ==
    CollapseHyphens(RemoveSpecial(
        Replace(Replace(LowerStr(s), " ", "-"), "_", "-")))

\* The conversion of get_project_name applied to the stripped input.
KebabCase(s) ==
    CollapseHyphens(StripHyphens(RemoveSpecial(
        Replace(Replace(LowerStr(s), " ", "-"), "_", "-"))))

\* The acceptance test of get_project_name on the converted name.
NameAccepted(n) == n # <<>> /\ ~StartsWith(n, <<"-">>) /\ ~EndsWith(n, <<"-">>)

\* str.title() on the from-name default: first letter of every word upper-case.
Letters ==
    {"a", "b", "y", "n", "u", "s", "d", "e", "r",
     "A", "B", "Y", "N", "U", "S", "D", "E", "R"}

Title(s) ==
    [i \in 1..Len(s) |->
        IF i = 1 \/ s[i - 1] \notin Letters THEN Upper(s[i]) ELSE Lower(s[i])]

\* ------------------------------------------------------------ SetupProgress
Fields ==
    {"current_step", "project_name", "completed_services", "api_keys",
     "service_configs"}

\* Mutant: a step counter that starts at 0.
SetupProgressFromZero ==
    [current_step |-> 0, project_name |-> <<>>, completed_services |-> <<>>,
     api_keys |-> EmptyMap, service_configs |-> EmptyMap]

\* SetupProgress(): the dataclass defaults after __post_init__.
SetupProgress ==
    [current_step |-> 1, project_name |-> <<>>, completed_services |-> <<>>,
     api_keys |-> EmptyMap, service_configs |-> EmptyMap]

\* Mutant: a to_dict that leaves service_configs out.
to_dict_without_configs(p) ==
    [current_step |-> p.current_step, project_name |-> p.project_name,
     completed_services |-> p.completed_services, api_keys |-> p.api_keys]

\* SetupProgress.to_dict: asdict of the five fields.
to_dict(p) ==
    [current_step |-> p.current_step, project_name |-> p.project_name,
     completed_services |-> p.completed_services, api_keys |-> p.api_keys,
     service_configs |-> p.service_configs]

\* Mutant: a from_dict that does not restore the project name.
from_dict_without_name(data) ==
    [f \in Fields |->
        IF f \in DOMAIN data /\ f # "project_name" THEN data[f]
        ELSE SetupProgress[f]]

\* SetupProgress.from_dict: cls(**data); a missing field takes its default.
from_dict(data) ==
    [f \in Fields |-> IF f \in DOMAIN data THEN data[f] ELSE SetupProgress[f]]

\* ---------------------------------------------------------- ProgressManager
FileAbsent == [kind |-> "absent"]
FileCorrupt == [kind |-> "corrupt"]
FileJson(d) == [kind |-> "json", data |-> d]
\* A JSON document that is no object (a list, a number, null): cls(**data)
\* raises TypeError.
FileJsonOther == [kind |-> "json_other"]

None == [kind |-> "none"]
Some(p) == [kind |-> "some", value |-> p]

SaveOutcomes ==
    IF faults > 0 THEN {"ok", "open_fails", "write_fails", "interrupted"}
    ELSE {"ok"}

WriteOutcomes == IF faults > 0 THEN {"ok", "fails"} ELSE {"ok"}

\* The faults left after an operation whose outcome was o.
FaultsAfter(o) == IF o = "ok" THEN faults ELSE faults - 1

\* Mutant: a save that writes nothing.
save_progress_skipped(file, p, o) == file

\* ProgressManager.save_progress: open(PROGRESS_FILE, 'w') truncates the file
\* and json.dump then writes the document.  An I/O error is caught and logged;
\* a KeyboardInterrupt is not caught.  o is what happens during the write.
save_progress(file, p, o) ==
    CASE o = "ok" -> FileJson(to_dict(p))
      [] o = "open_fails" -> file
      [] o = "write_fails" -> FileCorrupt
      [] o = "interrupted" -> FileCorrupt

\* Mutant: a load that answers a missing file with a new SetupProgress.
load_progress_default(file) ==
    IF file.kind = "absent" THEN Some(SetupProgress)
    ELSE IF file.kind = "json" /\ DOMAIN file.data \subseteq Fields
    THEN Some(from_dict(file.data))
    ELSE None

\* ProgressManager.load_progress: None for an absent file, for a file that is
\* not a JSON document and for a document cls(**data) rejects.
load_progress(file) ==
    IF file.kind = "json" /\ DOMAIN file.data \subseteq Fields
    THEN Some(from_dict(file.data))
    ELSE None

\* Mutant: a clear that leaves the file.
clear_progress_kept(file) == file

\* ProgressManager.clear_progress: os.remove when the file exists.
clear_progress(file) == FileAbsent

\* InteractiveSetup.__init__: load_progress() or SetupProgress().
InitialProgress(file) ==
    IF load_progress(file).kind = "some" THEN load_progress(file).value
    ELSE SetupProgress

\* Mutant: the identifier put in front of the sequence.
PrependCompleted(p, id) == [p EXCEPT !.completed_services = <<id>> \o @]

AppendCompleted(p, id) == [p EXCEPT !.completed_services = Append(@, id)]

\* Mutant: the assignment replaces the whole api_keys by the one entry.
SetKeyAlone(p, k, v) == [p EXCEPT !.api_keys = Put(EmptyMap, k, v)]

SetKey(p, k, v) == [p EXCEPT !.api_keys = Put(@, k, v)]

SetConfig(p, k, c) == [p EXCEPT !.service_configs = Put(@, k, c)]

\* f"https://{project_name}.vercel.app"
VercelAppUrl(name) == <<"https://">> \o name \o <<".vercel.app">>

\* service_configs.get(svc, {}).get('credentials', {})
Credentials(p, svc) ==
    IF svc \in DOMAIN p.service_configs
       /\ "credentials" \in DOMAIN p.service_configs[svc]
    THEN p.service_configs[svc].credentials
    ELSE EmptyMap

\* ------------------------------------------------------ environment documents
DocAbsent == [kind |-> "absent"]
DocText(v) == [kind |-> "text", vars |-> v]

\* The variables both documents take from api_keys, with their placeholders.
KeyVars(p, fromName) ==
    [NEXT_PUBLIC_CLERK_PUBLISHABLE_KEY |->
        Get(p.api_keys, "clerk_publishable_key",
            <<"pk_test_your_clerk_publishable_key_here">>),
     CLERK_SECRET_KEY |->
        Get(p.api_keys, "clerk_secret_key", <<"sk_test_your_clerk_secret_key_here">>),
     CLERK_WEBHOOK_SECRET |->
        Get(p.api_keys, "clerk_webhook_secret",
            <<"whsec_your_clerk_webhook_secret_here">>),
     POLAR_ACCESS_TOKEN |->
        Get(p.api_keys, "polar_access_token", <<"polar_oat_your_polar_token_here">>),
     POLAR_ENVIRONMENT |-> Get(Credentials(p, "polar"), "environment", <<"sandbox">>),
     POLAR_PRO_PRODUCT_ID |-> Get(Credentials(p, "polar"), "pro_product_id", <<>>),
     POLAR_BUSINESS_PRODUCT_ID |->
        Get(Credentials(p, "polar"), "business_product_id", <<>>),
     POLAR_WEBHOOK_SECRET |->
        Get(p.api_keys, "polar_webhook_secret", <<"polar_webhook_secret_here">>),
     NEXT_PUBLIC_SENTRY_DSN |->
        Get(p.api_keys, "sentry_dsn",
            <<"https://your-sentry-dsn-here.ingest.sentry.io/project-id">>),
     RESEND_API_KEY |->
        Get(p.api_keys, "resend_api_key", <<"re_your_resend_api_key_here">>),
     RESEND_FROM_EMAIL |->
        Get(p.api_keys, "resend_from_email", <<"onboarding@resend.dev">>),
     RESEND_FROM_NAME |-> Get(p.api_keys, "resend_from_name", fromName),
     CRON_SECRET |-> Get(p.api_keys, "cron_secret", <<"generated_cron_secret_here">>)]

\* The RESEND_REPLY_TO line is written only for a non-empty reply-to.
WithReplyTo(p, v) ==
    IF Get(p.api_keys, "resend_reply_to", <<>>) # <<>>
    THEN Put(v, "RESEND_REPLY_TO", p.api_keys["resend_reply_to"])
    ELSE v

\* The text generate_env_prod_file writes to .env.prod.
EnvProdContent(p) ==
    WithReplyTo(p,
        Put(Put(KeyVars(p, <<"Your App Name">>),
                "POLAR_ORGANIZATION_ID",
                Get(Credentials(p, "polar"), "organization_slug", <<>>)),
            "NEXT_PUBLIC_APP_URL",
            Get(Credentials(p, "vercel"), "project_url", <<"http://localhost:3000">>)))

\* The text generate_env_file writes to .env.
EnvContent(p) ==
    WithReplyTo(p,
        Put(KeyVars(p, <<"Kosuke Template">>),
            "NEXT_PUBLIC_APP_URL", <<"http://localhost:3000">>))

\* ------------------------------------------------------------------- inputs
RawNames == {<<" ", "A", "_", "b", "!">>, <<"a">>, <<"-", "-">>, <<>>}

YesNoInputs == {<<"Y">>, <<"n">>, <<"1">>}

CronSecrets == {<<"c1">>, <<"c2">>}

GithubInputs(name) ==
    {<<"https://github.com/", "a", "/">> \o name,
     <<"https://github.com/", "a", "/">> \o name \o <<"/", "b">>,
     <<"https://github.com/", "/">> \o name}

VercelInputs(name) ==
    {<<"https://vercel.com/", "a", "/">> \o name,
     <<"https://vercel.com/", "a">>,
     <<"http://vercel.com/">> \o name}

\* ---------------------------------------------------------------- sequencer
Init ==
    /\ progress = SetupProgress
    /\ progress_file = FileAbsent
    /\ env_prod = DocAbsent
    /\ env_local = DocAbsent
    /\ pc = "idle"
    /\ locals = EmptyMap
    /\ exit_code = -1
    /\ runs = 0
    /\ faults = 0
    /\ entered = FileAbsent
    /\ resumed = FileAbsent

\* The same program on a storage that can fail and with the operator able to
\* interrupt inside a save.
InitIO ==
    /\ progress = SetupProgress
    /\ progress_file = FileAbsent
    /\ env_prod = DocAbsent
    /\ env_local = DocAbsent
    /\ pc = "idle"
    /\ locals = EmptyMap
    /\ exit_code = -1
    /\ runs = 0
    /\ faults = MaxFaults
    /\ entered = FileAbsent
    /\ resumed = FileAbsent

\* start, lines 171-174: the project name is asked for only when it is not set.
AfterResumeCheck(p) == IF p.project_name = <<>> THEN "get_name" ELSE "loop"

\* The process ends with status code: its memory is gone.
Exit(code) ==
    /\ pc' = "idle"
    /\ exit_code' = code
    /\ progress' = SetupProgress
    /\ locals' = EmptyMap
    /\ entered' = FileAbsent
    /\ resumed' = FileAbsent

\* Mutant: a save whose I/O error is not caught and ends the run.
SaveAndGoPropagates(p, l, next, o) ==
    /\ progress_file' = save_progress(progress_file, p, o)
    /\ IF o # "ok"
       THEN Exit(1)
       ELSE /\ pc' = next
            /\ progress' = p
            /\ locals' = l
            /\ UNCHANGED <<exit_code, entered, resumed>>
    /\ faults' = FaultsAfter(o)
    /\ UNCHANGED <<env_prod, env_local, runs>>

\* What follows a save of progress p by a handler whose locals are l: the next
\* prompt, unless the operator interrupted inside the save (main, 953-956).
SaveAndGo(p, l, next, o) ==
    /\ progress_file' = save_progress(progress_file, p, o)
    /\ IF o = "interrupted"
       THEN Exit(1)
       ELSE /\ pc' = next
            /\ progress' = p
            /\ locals' = l
            /\ UNCHANGED <<exit_code, entered, resumed>>
    /\ faults' = FaultsAfter(o)
    /\ UNCHANGED <<env_prod, env_local, runs>>

\* Mutant: resume is offered for every persisted record.
LaunchOffersAlways ==
    /\ pc = "idle"
    /\ runs < MaxRuns
    /\ runs' = runs + 1
    /\ exit_code' = -1
    /\ locals' = EmptyMap
    /\ resumed' = FileAbsent
    /\ entered' = FileAbsent
    /\ IF load_progress(progress_file).kind = "some"
       THEN /\ progress' = InitialProgress(progress_file)
            /\ progress_file' = progress_file
            /\ pc' = "ask_resume"
       ELSE /\ progress' = SetupProgress
            /\ progress_file' = clear_progress(progress_file)
            /\ pc' = "get_name"
    /\ UNCHANGED <<env_prod, env_local, faults>>

\* main -> InteractiveSetup() -> start(), up to the first prompt.
Launch ==
    /\ pc = "idle"
    /\ runs < MaxRuns
    /\ runs' = runs + 1
    /\ exit_code' = -1
    /\ locals' = EmptyMap
    /\ resumed' = FileAbsent
    /\ entered' = FileAbsent
    /\ IF InitialProgress(progress_file).current_step > 1
       THEN /\ progress' = InitialProgress(progress_file)
            /\ progress_file' = progress_file
            /\ pc' = "ask_resume"
       ELSE /\ progress' = SetupProgress
            /\ progress_file' = clear_progress(progress_file)
            /\ pc' = "get_name"
    /\ UNCHANGED <<env_prod, env_local, faults>>

\* ask_resume and the branch of start that follows its answer.
ask_resume(inp) ==
    /\ pc = "ask_resume"
    /\ LET r == LowerStr(Strip(inp)) IN
       IF r \in {<<"y">>, <<"y", "e", "s">>}
       THEN /\ resumed' = progress_file
            /\ pc' = AfterResumeCheck(progress)
            /\ UNCHANGED <<progress, progress_file>>
       ELSE IF r \in {<<"n">>, <<"n", "o">>}
       THEN /\ progress' = SetupProgress
            /\ progress_file' = clear_progress(progress_file)
            /\ pc' = "get_name"
            /\ UNCHANGED resumed
       ELSE UNCHANGED <<progress, progress_file, pc, resumed>>
    /\ UNCHANGED <<env_prod, env_local, locals, exit_code, runs, faults, entered>>

\* One round of the loop of get_project_name on the line raw: the name it
\* returns, or none when it prints the error and asks again.
ReadProjectName(raw) ==
    LET s == Strip(raw)
        n == KebabCase(s)
    IN IF s # <<>> /\ NameAccepted(n) THEN Some(n) ELSE None

\* get_project_name, one round of its loop, and the save of start line 174.
get_project_name(raw, o) ==
    /\ pc = "get_name"
    /\ IF ReadProjectName(raw).kind = "some"
       THEN SaveAndGo([progress EXCEPT !.project_name = ReadProjectName(raw).value],
                      locals, "loop", o)
       ELSE o = "ok" /\ UNCHANGED vars

\* start, lines 195-196: the handler returned; advance and save.
\* Mutant: the counter advanced by two.
AdvanceTwice(p) == [p EXCEPT !.current_step = @ + 2]

\* start, line 195.
Advance(p) == [p EXCEPT !.current_step = @ + 1]

FinishStep(p, o) == SaveAndGo(Advance(p), EmptyMap, "loop", o)

\* A prompt that is asked again: nothing changes.
Reprompt(o) == o = "ok" /\ UNCHANGED vars

\* input("Press Enter when ..."): the answer is not looked at.
Ack(from, to) ==
    /\ pc = from
    /\ pc' = to
    /\ UNCHANGED <<progress, progress_file, env_prod, env_local, locals,
                   exit_code, runs, faults, entered, resumed>>

\* A prompt inside a handler that moves on to the next prompt with progress p
\* and locals l.
Step(to, p, l) ==
    /\ pc' = to
    /\ progress' = p
    /\ locals' = l
    /\ UNCHANGED <<progress_file, env_prod, env_local, exit_code, runs, faults,
                   entered, resumed>>

\* Mutant: the dispatch chain off by one, calling the handler of the next step.
FirstPromptOfNext(s) ==
    CASE s = 1 -> "s2_deploy"
      [] s = 2 -> "s3_neon"
      [] s = 3 -> "s4_env"
      [] s = 4 -> "s5_created"
      [] s = 5 -> "s6_account"
      [] s = 6 -> "s7_created"
      [] s = 7 -> "s8_added"
      [] s = 8 -> "s8_added"

\* The first prompt of the handler the while loop of start calls for step s.
FirstPrompt(s) ==
    CASE s = 1 -> "s1_fork"
      [] s = 2 -> "s2_deploy"
      [] s = 3 -> "s3_neon"
      [] s = 4 -> "s4_env"
      [] s = 5 -> "s5_created"
      [] s = 6 -> "s6_account"
      [] s = 7 -> "s7_created"
      [] s = 8 -> "s8_added"

\* The prompts of each handler, in order.
Prompts(s) ==
    CASE s = 1 -> <<"s1_fork", "s1_url">>
      [] s = 2 -> <<"s2_deploy", "s2_url", "s2_blob">>
      [] s = 3 -> <<"s3_neon">>
      [] s = 4 -> <<"s4_env", "s4_org_ready", "s4_pro_ready", "s4_bus_ready",
                    "s4_org_slug", "s4_pro_id", "s4_bus_id", "s4_token",
                    "s4_webhook">>
      [] s = 5 -> <<"s5_created", "s5_pk", "s5_sk", "s5_webhook">>
      [] s = 6 -> <<"s6_account", "s6_key", "s6_from_email", "s6_from_name",
                    "s6_reply_to">>
      [] s = 7 -> <<"s7_created", "s7_dsn">>
      [] s = 8 -> <<"s8_added">>

\* start, lines 177-191: the loop test and the call of the handler of steps 1-7,
\* up to the handler's first prompt.
RunStep ==
    /\ pc = "loop"
    /\ progress.current_step <= total_steps
    /\ progress.current_step # 8
    /\ pc' = FirstPrompt(progress.current_step)
    /\ entered' = progress_file
    /\ locals' = EmptyMap
    /\ UNCHANGED <<progress, progress_file, env_prod, env_local, exit_code, runs,
                   faults, resumed>>

\* ------------------------------------------------------------ step 1: github
SlashSymbols ==
    {"/", "https://github.com/", "https://vercel.com/", "http://vercel.com/",
     "https://", "https://polar.sh/dashboard", "https://sandbox.polar.sh/dashboard"}

\* Mutant: the pattern without its end anchor.
validate_github_url_unanchored(url, expected_name) ==
    /\ Len(url) >= 1
    /\ url[1] = "https://github.com/"
    /\ \E k \in 2..Len(url) :
          /\ \A i \in 2..k : url[i] \notin SlashSymbols
          /\ k + 1 <= Len(url)
          /\ url[k + 1] = "/"
          /\ StartsWith(SubSeq(url, k + 2, Len(url)), expected_name)

\* re.match(r'https://github\.com/[^/]+/' + re.escape(expected_name) + r'/?$', url)
\* The pattern is matched from the start of url; $ matches at the end of url
\* and before a line feed that ends it.
validate_github_url(url, expected_name) ==
    /\ Len(url) >= 1
    /\ url[1] = "https://github.com/"
    /\ \E k \in 2..Len(url) :
          /\ \A i \in 2..k : url[i] \notin SlashSymbols
          /\ k + 1 <= Len(url)
          /\ url[k + 1] = "/"
          /\ SubSeq(url, k + 2, Len(url)) \in
                {expected_name, expected_name \o <<"/">>,
                 expected_name \o <<"\n">>, expected_name \o <<"/", "\n">>}

step_1_fork == Ack("s1_fork", "s1_url")

\* Mutant: step 1 completes without appending its identifier.
step_1_url_unrecorded(inp, o) ==
    /\ pc = "s1_url"
    /\ LET repo_url == Strip(inp) IN
       IF validate_github_url(repo_url, progress.project_name)
       THEN FinishStep(SetKey(progress, "github_repo_url", repo_url), o)
       ELSE Reprompt(o)

step_1_url(inp, o) ==
    /\ pc = "s1_url"
    /\ LET repo_url == Strip(inp) IN
       IF validate_github_url(repo_url, progress.project_name)
       THEN FinishStep(AppendCompleted(
                SetKey(progress, "github_repo_url", repo_url), "github"), o)
       ELSE Reprompt(o)

\* ------------------------------------------------------------ step 2: vercel
VercelConfig(name) ==
    [name |-> <<"Vercel Project">>, url |-> VercelAppUrl(name),
     credentials |-> [project_url |-> VercelAppUrl(name)]]

\* The test of lines 331-333 on the stripped dashboard URL.
VercelUrlValid(url, name) ==
    /\ url # <<>>
    /\ StartsWith(url, <<"https://vercel.com/">>)
    /\ Contains(url, name)

step_2_deploy == Ack("s2_deploy", "s2_url")

step_2_url(inp) ==
    /\ pc = "s2_url"
    /\ LET dashboard_url == Strip(inp) IN
       IF VercelUrlValid(dashboard_url, progress.project_name)
       THEN Step("s2_blob", progress, locals)
       ELSE UNCHANGED vars

\* Mutant: step 2 completes without storing its configuration.
step_2_blob_without_config(o) ==
    /\ pc = "s2_blob"
    /\ FinishStep(AppendCompleted(progress, "vercel"), o)

step_2_blob(o) ==
    /\ pc = "s2_blob"
    /\ FinishStep(AppendCompleted(
          SetConfig(progress, "vercel", VercelConfig(progress.project_name)),
          "vercel"), o)

\* -------------------------------------------------------------- step 3: neon
\* Mutant: step 3 returns without the step counter being advanced.
step_3_neon_again(o) ==
    /\ pc = "s3_neon"
    /\ SaveAndGo(AppendCompleted(progress, "neon"), EmptyMap, "loop", o)

step_3_neon(o) ==
    /\ pc = "s3_neon"
    /\ FinishStep(AppendCompleted(progress, "neon"), o)

\* ------------------------------------------------------------- step 4: polar
NonEmptyInputs == {<<"1">>, <<" ">>}

PolarTokenInputs == {<<"polar_oat_", "1">>, <<"1">>}

PolarDashboard(environment) ==
    IF environment = <<"sandbox">> THEN <<"https://sandbox.polar.sh/dashboard">>
    ELSE <<"https://polar.sh/dashboard">>

\* ServiceConfig(...).to_dict() of lines 470-483.
PolarConfig(name, l) ==
    [name |-> <<"Polar Billing">>,
     url |-> PolarDashboard(l.environment) \o <<"/">> \o l.org_slug,
     credentials |->
        [organization_slug |-> l.org_slug,
         pro_product_id |-> l.pro_product_id,
         business_product_id |-> l.business_product_id,
         environment |-> l.environment,
         dashboard_url |-> PolarDashboard(l.environment) \o <<"/">> \o l.org_slug],
     webhook_urls |-> << VercelAppUrl(name) \o <<"/api/billing/webhook">> >>]

\* The tests of the prompts of step 4 on the stripped answer: lines 398-402
\* (after lower()), 444, 456 and 465, 504, 523.
YesNoValid(r) == r \in {<<"y">>, <<"y", "e", "s">>, <<"n">>, <<"n", "o">>}

NonEmptyValid(v) == v # <<>>

PolarTokenValid(t) == StartsWith(t, <<"polar_oat_">>)

step_polar_env(inp) ==
    /\ pc = "s4_env"
    /\ LET environment == LowerStr(Strip(inp)) IN
       IF environment \in {<<"y">>, <<"y", "e", "s">>}
       THEN Step("s4_org_ready", progress, Put(locals, "environment", <<"sandbox">>))
       ELSE IF environment \in {<<"n">>, <<"n", "o">>}
       THEN Step("s4_org_ready", progress,
                 Put(locals, "environment", <<"production">>))
       ELSE UNCHANGED vars

step_polar_org_ready == Ack("s4_org_ready", "s4_pro_ready")

step_polar_pro_ready == Ack("s4_pro_ready", "s4_bus_ready")

step_polar_bus_ready == Ack("s4_bus_ready", "s4_org_slug")

step_polar_org_slug(inp) ==
    /\ pc = "s4_org_slug"
    /\ IF NonEmptyValid(Strip(inp))
       THEN Step("s4_pro_id", progress, Put(locals, "org_slug", Strip(inp)))
       ELSE UNCHANGED vars

step_polar_pro_id(inp) ==
    /\ pc = "s4_pro_id"
    /\ IF NonEmptyValid(Strip(inp))
       THEN Step("s4_bus_id", progress, Put(locals, "pro_product_id", Strip(inp)))
       ELSE UNCHANGED vars

\* The last product id, then lines 469-485: the configuration is stored, 'polar'
\* is appended and the progress is saved, all before the token is asked for.
step_polar_bus_id(inp, o) ==
    /\ pc = "s4_bus_id"
    /\ IF NonEmptyValid(Strip(inp))
       THEN SaveAndGo(
                AppendCompleted(
                    SetConfig(progress, "polar",
                        PolarConfig(progress.project_name,
                            Put(locals, "business_product_id", Strip(inp)))),
                    "polar"),
                Put(locals, "business_product_id", Strip(inp)), "s4_token", o)
       ELSE Reprompt(o)

step_polar_token(inp) ==
    /\ pc = "s4_token"
    /\ IF PolarTokenValid(Strip(inp))
       THEN Step("s4_webhook", SetKey(progress, "polar_access_token", Strip(inp)),
                 locals)
       ELSE UNCHANGED vars

step_polar_webhook(inp, o) ==
    /\ pc = "s4_webhook"
    /\ IF NonEmptyValid(Strip(inp))
       THEN FinishStep(SetKey(progress, "polar_webhook_secret", Strip(inp)), o)
       ELSE Reprompt(o)

\* ------------------------------------------------------------- step 5: clerk
ClerkPkInputs == {<<"pk_test_", "1">>, <<"1">>}

ClerkSkInputs == {<<"sk_live_", "1">>, <<"1">>}

WhsecInputs == {<<"whsec_", "1">>, <<"1">>}

\* The tests of the prompts of step 5: lines 555, 561 and 585.
ClerkPkValid(k) == StartsWith(k, <<"pk_test_">>) \/ StartsWith(k, <<"pk_live_">>)

ClerkSkValid(k) == StartsWith(k, <<"sk_test_">>) \/ StartsWith(k, <<"sk_live_">>)

ClerkWebhookValid(k) == StartsWith(k, <<"whsec_">>)

step_5_created == Ack("s5_created", "s5_pk")

step_5_pk(inp) ==
    /\ pc = "s5_pk"
    /\ IF ClerkPkValid(Strip(inp))
       THEN Step("s5_sk", progress, Put(locals, "publishable_key", Strip(inp)))
       ELSE UNCHANGED vars

\* The secret key, then lines 565-566: both keys are stored.
step_5_sk(inp) ==
    /\ pc = "s5_sk"
    /\ IF ClerkSkValid(Strip(inp))
       THEN Step("s5_webhook",
                 SetKey(SetKey(progress, "clerk_publishable_key",
                               locals.publishable_key),
                        "clerk_secret_key", Strip(inp)),
                 Put(locals, "secret_key", Strip(inp)))
       ELSE UNCHANGED vars

step_5_webhook(inp, o) ==
    /\ pc = "s5_webhook"
    /\ IF ClerkWebhookValid(Strip(inp))
       THEN FinishStep(AppendCompleted(
                SetKey(progress, "clerk_webhook_secret", Strip(inp)), "clerk"), o)
       ELSE Reprompt(o)

\* ------------------------------------------------------------ step 6: resend
ResendKeyInputs == {<<"re_", "1">>, <<"1">>}

OptionalInputs == {<<"1">>, <<>>}

\* Enter alone: the default sender address and the default sender name.
DefaultInputs == {<<>>, <<" ">>}

\* The test of line 627.
\* Mutant: no key passes the test.
ResendKeyValidNever(k) == FALSE

ResendKeyValid(k) == StartsWith(k, <<"re_">>)

step_6_account == Ack("s6_account", "s6_key")

step_6_key(inp) ==
    /\ pc = "s6_key"
    /\ IF ResendKeyValid(Strip(inp))
       THEN Step("s6_from_email", SetKey(progress, "resend_api_key", Strip(inp)),
                 locals)
       ELSE UNCHANGED vars

step_6_from_email(inp) ==
    /\ pc = "s6_from_email"
    /\ Step("s6_from_name",
            SetKey(progress, "resend_from_email",
                   IF Strip(inp) = <<>> THEN <<"onboarding@resend.dev">>
                   ELSE Strip(inp)),
            locals)

step_6_from_name(inp) ==
    /\ pc = "s6_from_name"
    /\ Step("s6_reply_to",
            SetKey(progress, "resend_from_name",
                   IF Strip(inp) = <<>>
                   THEN Title(Replace(progress.project_name, "-", " "))
                   ELSE Strip(inp)),
            locals)

step_6_reply_to(inp, o) ==
    /\ pc = "s6_reply_to"
    /\ FinishStep(AppendCompleted(
          IF Strip(inp) # <<>> THEN SetKey(progress, "resend_reply_to", Strip(inp))
          ELSE progress,
          "resend"), o)

\* ------------------------------------------------------------ step 7: sentry
SentryInputs ==
    {<<"https://", "1", ".ingest.sentry.io">>, <<"https://", "1">>,
     <<"1", ".ingest.sentry.io">>}

\* The test of line 701.
SentryDsnValid(d) ==
    StartsWith(d, <<"https://">>) /\ Contains(d, <<".ingest.sentry.io">>)

step_7_created == Ack("s7_created", "s7_dsn")

\* Mutant: the DSN stored without the test of line 701.
step_7_dsn_unchecked(inp, o) ==
    /\ pc = "s7_dsn"
    /\ FinishStep(AppendCompleted(
           SetKey(progress, "sentry_dsn", Strip(inp)), "sentry"), o)

step_7_dsn(inp, o) ==
    /\ pc = "s7_dsn"
    /\ IF SentryDsnValid(Strip(inp))
       THEN FinishStep(AppendCompleted(
                SetKey(progress, "sentry_dsn", Strip(inp)), "sentry"), o)
       ELSE Reprompt(o)

\* -------------------------------------------------------- step 8: vercel-env
\* Mutant: the secret drawn is not kept in api_keys.
WithoutCronSecret(p, secret) == p

\* generate_env_prod_file, lines 761-764: the new secret is stored in api_keys.
WithCronSecret(p, secret) == SetKey(p, "cron_secret", secret)

\* The loop test with current_step = 8 and step_8_vercel_env_vars up to its
\* prompt: generate_env_prod_file draws the secret and writes .env.prod.  A
\* failing write raises, and main exits with 1.
step_8_enter(secret, w) ==
    /\ pc = "loop"
    /\ progress.current_step <= total_steps
    /\ progress.current_step = 8
    /\ IF w = "ok"
       THEN /\ progress' = WithCronSecret(progress, secret)
            /\ env_prod' = DocText(EnvProdContent(progress'))
            /\ pc' = "s8_added"
            /\ entered' = progress_file
            /\ locals' = EmptyMap
            /\ UNCHANGED <<exit_code, resumed>>
       ELSE /\ env_prod' = env_prod
            /\ Exit(1)
    /\ faults' = FaultsAfter(w)
    /\ UNCHANGED <<progress_file, env_local, runs>>

step_8_added(o) ==
    /\ pc = "s8_added"
    /\ FinishStep(AppendCompleted(progress, "vercel-env"), o)

\* --------------------------------------------------------------- completion
\* Mutant: the completion without the removal of the progress file.
FinishKeepsProgress(w) ==
    /\ pc = "loop"
    /\ progress.current_step > total_steps
    /\ IF w = "ok"
       THEN /\ env_local' = DocText(EnvContent(progress))
            /\ progress_file' = progress_file
            /\ Exit(0)
       ELSE /\ env_local' = env_local
            /\ progress_file' = progress_file
            /\ Exit(1)
    /\ faults' = FaultsAfter(w)
    /\ UNCHANGED <<env_prod, runs>>

\* start, lines 177 and 198-201, and the normal return of main: the loop ends,
\* .env is written, the summary printed and the progress file removed.
Finish(w) ==
    /\ pc = "loop"
    /\ progress.current_step > total_steps
    /\ IF w = "ok"
       THEN /\ env_local' = DocText(EnvContent(progress))
            /\ progress_file' = clear_progress(progress_file)
            /\ Exit(0)
       ELSE /\ env_local' = env_local
            /\ progress_file' = progress_file
            /\ Exit(1)
    /\ faults' = FaultsAfter(w)
    /\ UNCHANGED <<env_prod, runs>>

\* main, lines 953-961: a KeyboardInterrupt (or the EOFError of a closed
\* input) while the process waits at a prompt ends it with exit code 1.
Interrupt ==
    /\ pc # "idle"
    /\ Exit(1)
    /\ UNCHANGED <<progress_file, env_prod, env_local, runs, faults>>

\* The steps of the wizard with an operator who answers the prompts.
Operate ==
    \/ Launch
    \/ \E inp \in YesNoInputs : ask_resume(inp)
    \/ \E raw \in RawNames, o \in SaveOutcomes : get_project_name(raw, o)
    \/ RunStep
    \/ step_1_fork
    \/ \E inp \in GithubInputs(progress.project_name), o \in SaveOutcomes :
          step_1_url(inp, o)
    \/ step_2_deploy
    \/ \E inp \in VercelInputs(progress.project_name) : step_2_url(inp)
    \/ \E o \in SaveOutcomes : step_2_blob(o)
    \/ \E o \in SaveOutcomes : step_3_neon(o)
    \/ \E inp \in YesNoInputs : step_polar_env(inp)
    \/ step_polar_org_ready
    \/ step_polar_pro_ready
    \/ step_polar_bus_ready
    \/ \E inp \in NonEmptyInputs : step_polar_org_slug(inp)
    \/ \E inp \in NonEmptyInputs : step_polar_pro_id(inp)
    \/ \E inp \in NonEmptyInputs, o \in SaveOutcomes : step_polar_bus_id(inp, o)
    \/ \E inp \in PolarTokenInputs : step_polar_token(inp)
    \/ \E inp \in NonEmptyInputs, o \in SaveOutcomes : step_polar_webhook(inp, o)
    \/ step_5_created
    \/ \E inp \in ClerkPkInputs : step_5_pk(inp)
    \/ \E inp \in ClerkSkInputs : step_5_sk(inp)
    \/ \E inp \in WhsecInputs, o \in SaveOutcomes : step_5_webhook(inp, o)
    \/ step_6_account
    \/ \E inp \in ResendKeyInputs : step_6_key(inp)
    \/ \E inp \in DefaultInputs : step_6_from_email(inp)
    \/ \E inp \in DefaultInputs : step_6_from_name(inp)
    \/ \E inp \in OptionalInputs, o \in SaveOutcomes : step_6_reply_to(inp, o)
    \/ step_7_created
    \/ \E inp \in SentryInputs, o \in SaveOutcomes : step_7_dsn(inp, o)
    \/ \E secret \in CronSecrets, w \in WriteOutcomes : step_8_enter(secret, w)
    \/ \E o \in SaveOutcomes : step_8_added(o)
    \/ \E w \in WriteOutcomes : Finish(w)

Next ==
    \/ Operate
    \/ Interrupt

Spec == Init /\ [][Next]_vars

SpecIO == InitIO /\ [][Next]_vars

\* ------------------------------------------------------- the progress store
\* The ProgressManager on its own: save, load and clear called in any order on
\* any content of the progress file.
SeqsUpTo(S, n) == UNION {[1..k -> S] : k \in 0..n}

\* SetupProgress values with current_step in 1 .. total_steps + 1.
StoreProgress ==
    [current_step : 1..(total_steps + 1),
     project_name : {<<>>, <<"a">>},
     completed_services : SeqsUpTo({"github", "vercel"}, MaxServices),
     api_keys : {EmptyMap,
                 [github_repo_url |-> <<"https://github.com/", "a", "/", "a">>]},
     service_configs : {EmptyMap, [vercel |-> VercelConfig(<<"a">>)]}]

\* Contents of the progress file: none, no JSON, JSON that is no object, an
\* object with a field SetupProgress does not have, an object with fields
\* missing, and complete objects with current_step inside and outside its range.
StoreFiles ==
    {FileAbsent, FileCorrupt, FileJsonOther,
     FileJson([current_step |-> 3, version |-> 1]),
     FileJson([current_step |-> 3, project_name |-> <<"a">>])}
    \cup {FileJson(to_dict([SetupProgress EXCEPT !.current_step = n,
                                                 !.project_name = <<"a">>])) :
             n \in {-1, 0, 2, total_steps + 1, total_steps + 2}}

StorePcs == {"store", "saved", "loaded", "cleared"}

InitStore ==
    /\ progress \in StoreProgress
    /\ progress_file \in StoreFiles
    /\ env_prod = DocAbsent
    /\ env_local = DocAbsent
    /\ pc = "store"
    /\ locals = EmptyMap
    /\ exit_code = -1
    /\ runs = 0
    /\ faults = 0
    /\ entered = FileAbsent
    /\ resumed = FileAbsent

\* ProgressManager.save_progress(progress).
StoreSave(o) ==
    /\ pc \in StorePcs
    /\ progress_file' = save_progress(progress_file, progress, o)
    /\ pc' = "saved"
    /\ entered' = progress_file
    /\ locals' = EmptyMap
    /\ UNCHANGED <<progress, env_prod, env_local, exit_code, runs, faults, resumed>>

\* InteractiveSetup.__init__: result = load_progress(); progress = result or
\* SetupProgress().
StoreLoad ==
    /\ pc \in StorePcs
    /\ locals' = [result |-> load_progress(progress_file)]
    /\ progress' = InitialProgress(progress_file)
    /\ pc' = "loaded"
    /\ entered' = progress_file
    /\ UNCHANGED <<progress_file, env_prod, env_local, exit_code, runs, faults,
                   resumed>>

\* ProgressManager.clear_progress().
StoreClear ==
    /\ pc \in StorePcs
    /\ progress_file' = clear_progress(progress_file)
    /\ pc' = "cleared"
    /\ entered' = progress_file
    /\ locals' = EmptyMap
    /\ UNCHANGED <<progress, env_prod, env_local, exit_code, runs, faults, resumed>>

NextStore ==
    \/ \E o \in SaveOutcomes : StoreSave(o)
    \/ StoreLoad
    \/ StoreClear

SpecStore == InitStore /\ [][NextStore]_vars

\* -------------------------------------------------------- the project name
\* get_project_name on its own: a new run at the project-name prompt, the
\* operator typing any line of at most MaxLen symbols.
NameSymbols == {"a", "A", "1", "-", "_", " ", "!"}

InitName ==
    /\ progress = SetupProgress
    /\ progress_file = FileAbsent
    /\ env_prod = DocAbsent
    /\ env_local = DocAbsent
    /\ pc = "get_name"
    /\ locals \in {[raw |-> s] : s \in SeqsUpTo(NameSymbols, MaxLen)}
    /\ exit_code = -1
    /\ runs = 1
    /\ faults = 0
    /\ entered = FileAbsent
    /\ resumed = FileAbsent

\* The operator types the line.
EnterName == \E o \in SaveOutcomes : get_project_name(locals.raw, o)

NextName == EnterName

SpecName == InitName /\ [][NextName]_vars

\* ------------------------------------------------------------ the fork URL
\* The URL prompt of step 1 on its own: a run that has saved its project name
\* and entered step 1, the operator typing any line of at most MaxUrlLen
\* symbols.
UrlSymbols == {"https://github.com/", "/", "a", "b", "\n"}

UrlNames == {<<"a">>, <<"a", "b">>}

InitUrl ==
    /\ progress \in {[SetupProgress EXCEPT !.project_name = n] : n \in UrlNames}
    /\ progress_file = FileJson(to_dict(progress))
    /\ env_prod = DocAbsent
    /\ env_local = DocAbsent
    /\ pc = "s1_url"
    /\ locals \in {[url |-> u] : u \in SeqsUpTo(UrlSymbols, MaxUrlLen)}
    /\ exit_code = -1
    /\ runs = 1
    /\ faults = 0
    /\ entered = progress_file
    /\ resumed = FileAbsent

\* The operator types the line.
EnterUrl == \E o \in SaveOutcomes : step_1_url(locals.url, o)

NextUrl == EnterUrl

SpecUrl == InitUrl /\ [][NextUrl]_vars

\* ------------------------------------------------------ the checked prompts
\* Every prompt of steps 1 to 7 whose answer is tested, on its own: a run of
\* project 'a' that has come to the prompt, the operator typing any line of
\* at most MaxTyped symbols.  The progress at each prompt is the one the
\* steps before it leave.
PromptName == <<"a">>

AtStep1 == [SetupProgress EXCEPT !.project_name = PromptName]

AtStep2 ==
    Advance(AppendCompleted(
        SetKey(AtStep1, "github_repo_url",
               <<"https://github.com/", "a", "/", "a">>), "github"))

AtStep3 ==
    Advance(AppendCompleted(
        SetConfig(AtStep2, "vercel", VercelConfig(PromptName)), "vercel"))

AtStep4 == Advance(AppendCompleted(AtStep3, "neon"))

PolarLocals ==
    [environment |-> <<"sandbox">>, org_slug |-> <<"1">>,
     pro_product_id |-> <<"1">>, business_product_id |-> <<"1">>]

AtPolarToken ==
    AppendCompleted(
        SetConfig(AtStep4, "polar", PolarConfig(PromptName, PolarLocals)), "polar")

AtPolarWebhook == SetKey(AtPolarToken, "polar_access_token", <<"polar_oat_", "1">>)

AtStep5 == Advance(SetKey(AtPolarWebhook, "polar_webhook_secret", <<"1">>))

ClerkLocals ==
    [publishable_key |-> <<"pk_test_", "1">>, secret_key |-> <<"sk_live_", "1">>]

AtClerkWebhook ==
    SetKey(SetKey(AtStep5, "clerk_publishable_key", ClerkLocals.publishable_key),
           "clerk_secret_key", ClerkLocals.secret_key)

AtStep6 ==
    Advance(AppendCompleted(
        SetKey(AtClerkWebhook, "clerk_webhook_secret", <<"whsec_", "1">>), "clerk"))

AtStep7 ==
    Advance(AppendCompleted(
        SetKey(SetKey(SetKey(AtStep6, "resend_api_key", <<"re_", "1">>),
                      "resend_from_email", <<"onboarding@resend.dev">>),
               "resend_from_name", Title(Replace(PromptName, "-", " "))),
        "resend"))

\* keys of m restricted to ks
Restrict(m, ks) == [k \in ks |-> m[k]]

\* For each checked prompt: the progress the handler was entered with, the
\* progress, the saved progress and the handler's locals when the prompt is
\* asked, and the symbols of the typed line.
PromptStates ==
    {[pc |-> "s1_url", entry |-> AtStep1,
      progress |-> AtStep1, saved |-> AtStep1,
      locals |-> EmptyMap,
      symbols |-> {"https://github.com/", "/", "a", "b"}],
     [pc |-> "s2_url", entry |-> AtStep2,
      progress |-> AtStep2, saved |-> AtStep2,
      locals |-> EmptyMap,
      symbols |-> {"https://vercel.com/", "http://vercel.com/", "a", "b", " "}],
     [pc |-> "s4_env", entry |-> AtStep4,
      progress |-> AtStep4, saved |-> AtStep4,
      locals |-> EmptyMap,
      symbols |-> {"y", "e", "s", "N", "o"}],
     [pc |-> "s4_org_slug", entry |-> AtStep4,
      progress |-> AtStep4, saved |-> AtStep4,
      locals |-> Restrict(PolarLocals, {"environment"}),
      symbols |-> {"1", " "}],
     [pc |-> "s4_pro_id", entry |-> AtStep4,
      progress |-> AtStep4, saved |-> AtStep4,
      locals |-> Restrict(PolarLocals, {"environment", "org_slug"}),
      symbols |-> {"1", " "}],
     [pc |-> "s4_bus_id", entry |-> AtStep4,
      progress |-> AtStep4, saved |-> AtStep4,
      locals |-> Restrict(PolarLocals, {"environment", "org_slug", "pro_product_id"}),
      symbols |-> {"1", " "}],
     [pc |-> "s4_token", entry |-> AtStep4,
      progress |-> AtPolarToken, saved |-> AtPolarToken,
      locals |-> PolarLocals,
      symbols |-> {"polar_oat_", "whsec_", "1", " "}],
     [pc |-> "s4_webhook", entry |-> AtStep4,
      progress |-> AtPolarWebhook, saved |-> AtPolarToken,
      locals |-> PolarLocals,
      symbols |-> {"1", " "}],
     [pc |-> "s5_pk", entry |-> AtStep5,
      progress |-> AtStep5, saved |-> AtStep5,
      locals |-> EmptyMap,
      symbols |-> {"pk_test_", "pk_live_", "sk_test_", "1", " "}],
     [pc |-> "s5_sk", entry |-> AtStep5,
      progress |-> AtStep5, saved |-> AtStep5,
      locals |-> Restrict(ClerkLocals, {"publishable_key"}),
      symbols |-> {"sk_test_", "sk_live_", "pk_test_", "1", " "}],
     [pc |-> "s5_webhook", entry |-> AtStep5,
      progress |-> AtClerkWebhook, saved |-> AtStep5,
      locals |-> ClerkLocals,
      symbols |-> {"whsec_", "re_", "1", " "}],
     [pc |-> "s6_key", entry |-> AtStep6,
      progress |-> AtStep6, saved |-> AtStep6,
      locals |-> EmptyMap,
      symbols |-> {"re_", "whsec_", "1", " "}],
     [pc |-> "s7_dsn", entry |-> AtStep7,
      progress |-> AtStep7, saved |-> AtStep7,
      locals |-> EmptyMap,
      symbols |-> {"https://", "http://", ".ingest.sentry.io", "1", " "}]}

InitPrompt ==
    \E st \in PromptStates :
        /\ pc = st.pc
        /\ progress = st.progress
        /\ progress_file = FileJson(to_dict(st.saved))
        /\ locals \in {Put(st.locals, "typed", t) :
                          t \in SeqsUpTo(st.symbols, MaxTyped)}
        /\ env_prod = DocAbsent
        /\ env_local = DocAbsent
        /\ exit_code = -1
        /\ runs = 1
        /\ faults \in 0..MaxFaults
        /\ entered = FileJson(to_dict(st.entry))
        /\ resumed = FileAbsent

\* The operator types the line at the prompt the run is at.
NextPrompt ==
    \/ \E o \in SaveOutcomes : step_1_url(locals.typed, o)
    \/ step_2_url(locals.typed)
    \/ step_polar_env(locals.typed)
    \/ step_polar_org_slug(locals.typed)
    \/ step_polar_pro_id(locals.typed)
    \/ \E o \in SaveOutcomes : step_polar_bus_id(locals.typed, o)
    \/ step_polar_token(locals.typed)
    \/ \E o \in SaveOutcomes : step_polar_webhook(locals.typed, o)
    \/ step_5_pk(locals.typed)
    \/ step_5_sk(locals.typed)
    \/ \E o \in SaveOutcomes : step_5_webhook(locals.typed, o)
    \/ step_6_key(locals.typed)
    \/ \E o \in SaveOutcomes : step_7_dsn(locals.typed, o)

SpecPrompt == InitPrompt /\ [][NextPrompt]_vars

\* ------------------------------------------------- the cooperative operator
\* The wizard with a cooperative operator: no interrupt, and the process and
\* the operator go on: a prompt waits until a line is typed that it accepts,
\* and such a line is typed eventually.
\*
\* The run that is followed is the last one the bound allows.  It finds no
\* progress file, or the file an earlier run of project 'a' left when it was
\* interrupted in one of the steps 1 to 7 (in step 4: before or after the
\* save of line 485).
LiveFiles ==
    {FileAbsent} \cup
    {FileJson(to_dict(p)) :
        p \in {AtStep1, AtStep2, AtStep3, AtStep4, AtPolarToken, AtStep5, AtStep6,
               AtStep7}}

InitLive ==
    /\ progress = SetupProgress
    /\ progress_file \in LiveFiles
    /\ env_prod = DocAbsent
    /\ env_local = DocAbsent
    /\ pc = "idle"
    /\ locals = EmptyMap
    /\ exit_code = -1
    /\ runs = MaxRuns - 1
    /\ faults = 0
    /\ entered = FileAbsent
    /\ resumed = FileAbsent

SpecLive == InitLive /\ [][Operate]_vars /\ WF_vars(Operate)

\* ------------------------------------------------ a record without step 2
\* A progress file that names a later step and has no service_configs entry
\* of step 2: from_dict takes it as it is, a missing field with its default.
StaleFiles ==
    {FileJson([current_step |-> s, project_name |-> PromptName]) : s \in {5, 8}}
    \cup
    {FileJson(to_dict(
        [AtStep5 EXCEPT !.service_configs = Restrict(@, DOMAIN @ \ {"vercel"})]))}

InitStale ==
    /\ progress = SetupProgress
    /\ progress_file \in LiveFiles \cup StaleFiles
    /\ env_prod = DocAbsent
    /\ env_local = DocAbsent
    /\ pc = "idle"
    /\ locals = EmptyMap
    /\ exit_code = -1
    /\ runs = MaxRuns - 1
    /\ faults = 0
    /\ entered = FileAbsent
    /\ resumed = FileAbsent

SpecStale == InitStale /\ [][Next]_vars

\* --------------------------------------------------------------- the engine
\* The functions of the engine service, each called once on arguments drawn
\* from small sets.  Numbers: a and b are integers, a number is the pair of
\* its numerator and denominator; an amount of money is a whole number of
\* thousandths, an exchange rate a whole number of hundredths.
Returned(v) == [kind |-> "return", value |-> v]

Raised(e) == [kind |-> "raise", error |-> e]

\* class Operation
Operation == {"add", "subtract", "multiply", "divide"}

Quotient(a, b) == IF b > 0 THEN [num |-> a, den |-> b] ELSE [num |-> -a, den |-> -b]

calculate(a, b, op) ==
    IF op = "add" THEN Returned(Quotient(a + b, 1))
    ELSE IF op = "subtract" THEN Returned(Quotient(a - b, 1))
    ELSE IF op = "multiply" THEN Returned(Quotient(a * b, 1))
    ELSE IF op = "divide"
    THEN IF b = 0 THEN Raised("ZeroDivisionError") ELSE Returned(Quotient(a, b))
    ELSE Returned(None)

\* class Currency
Currency ==
    {<<"U", "S", "D">>, <<"E", "U", "R">>, <<"G", "B", "P">>, <<"J", "P", "Y">>,
     <<"C", "A", "D">>, <<"A", "U", "D">>, <<"C", "H", "F">>, <<"C", "N", "Y">>}

\* EXCHANGE_RATES, in hundredths.
EXCHANGE_RATES ==
    [c \in Currency |->
        CASE c = <<"U", "S", "D">> -> 100
          [] c = <<"E", "U", "R">> -> 85
          [] c = <<"G", "B", "P">> -> 73
          [] c = <<"J", "P", "Y">> -> 11000
          [] c = <<"C", "A", "D">> -> 125
          [] c = <<"A", "U", "D">> -> 135
          [] c = <<"C", "H", "F">> -> 92
          [] c = <<"C", "N", "Y">> -> 645]

\* The choices of round() for a value half way between two results: which
\* one the floating-point value falls to depends on its binary expansion.
Ties == {"down", "up"}

\* n / d (n >= 0, d > 0) rounded to a whole number.
RoundDiv(n, d, tie) ==
    LET q == n \div d
        r == n % d
    IN IF 2 * r > d THEN q + 1
       ELSE IF 2 * r < d THEN q
       ELSE IF tie = "up" THEN q + 1 ELSE q

\* convert_currency: the amount in thousandths; round(x, 2) gives a whole
\* number of hundredths.
convert_currency(amount, from_currency, to_currency, tie) ==
    IF amount < 0 THEN Raised("ValueError")
    ELSE IF from_currency = to_currency THEN Returned(amount)
    ELSE Returned(10 * RoundDiv(amount * EXCHANGE_RATES[to_currency],
                                10 * EXCHANGE_RATES[from_currency], tie))

\* POST /convert: the request model (amount >= 0), the two Currency(...)
\* constructions, the conversion and the response.  The exchange rate of the
\* response is in ten-thousandths.
convert_endpoint(payload, tie) ==
    LET from_code == UpperStr(payload.from_currency)
        to_code == UpperStr(payload.to_currency)
    IN IF payload.amount < 0 THEN Raised("422")
       ELSE IF from_code \notin Currency \/ to_code \notin Currency
       THEN Raised("400 Invalid currency code")
       ELSE IF convert_currency(payload.amount, from_code, to_code, tie).kind = "raise"
       THEN Raised("400")
       ELSE Returned(
               [converted_amount |->
                    convert_currency(payload.amount, from_code, to_code, tie).value,
                from_currency |-> from_code,
                to_currency |-> to_code,
                exchange_rate |->
                    RoundDiv(10000 * EXCHANGE_RATES[to_code],
                             EXCHANGE_RATES[from_code], tie)])

\* The calls: calculate on small integers and on the operations and two
\* other strings; convert_currency on the members of Currency; the endpoint
\* on codes as a client sends them, lower case and unknown ones included.
EngineCalls ==
    {[fn |-> "calculate", a |-> a, b |-> b, op |-> op] :
        a \in (-MaxNum)..MaxNum, b \in (-MaxNum)..MaxNum,
        op \in Operation \cup {"modulo", "ADD"}}
    \cup
    {[fn |-> "convert_currency", amount |-> m, from_currency |-> f,
      to_currency |-> t] : m \in (-2)..MaxAmount, f \in Currency, t \in Currency}
    \cup
    {[fn |-> "convert_endpoint", amount |-> m, from_currency |-> f,
      to_currency |-> t] :
        m \in (-2)..MaxAmount,
        f \in Currency \cup {<<"u", "s", "d">>, <<"X", "X", "X">>},
        t \in Currency \cup {<<"u", "s", "d">>, <<"X", "X", "X">>}}

InitEngine ==
    /\ pc = "call"
    /\ locals \in EngineCalls
    /\ progress = SetupProgress
    /\ progress_file = FileAbsent
    /\ env_prod = DocAbsent
    /\ env_local = DocAbsent
    /\ exit_code = -1
    /\ runs = 0
    /\ faults = 0
    /\ entered = FileAbsent
    /\ resumed = FileAbsent

\* The call returns or raises: the outcome is kept with the arguments.
Outcome(result) ==
    /\ pc' = "returned"
    /\ locals' = Put(locals, "result", result)
    /\ UNCHANGED <<progress, progress_file, env_prod, env_local, exit_code, runs,
                   faults, entered, resumed>>

CallCalculate ==
    /\ pc = "call"
    /\ locals.fn = "calculate"
    /\ Outcome(calculate(locals.a, locals.b, locals.op))

CallConvertCurrency ==
    /\ pc = "call"
    /\ locals.fn = "convert_currency"
    /\ \E tie \in Ties :
          Outcome(convert_currency(locals.amount, locals.from_currency,
                                   locals.to_currency, tie))

CallConvertEndpoint ==
    /\ pc = "call"
    /\ locals.fn = "convert_endpoint"
    /\ \E tie \in Ties :
          Outcome(convert_endpoint(
              [amount |-> locals.amount, from_currency |-> locals.from_currency,
               to_currency |-> locals.to_currency], tie))

NextEngine ==
    \/ CallCalculate
    \/ CallConvertCurrency
    \/ CallConvertEndpoint

SpecEngine == InitEngine /\ [][NextEngine]_vars

\* ============================================================== properties
Steps == 1..total_steps

\* The identifier each handler appends to completed_services.
StepId(s) ==
    CASE s = 1 -> "github"
      [] s = 2 -> "vercel"
      [] s = 3 -> "neon"
      [] s = 4 -> "polar"
      [] s = 5 -> "clerk"
      [] s = 6 -> "resend"
      [] s = 7 -> "sentry"
      [] s = 8 -> "vercel-env"

Range(seq) == {seq[i] : i \in DOMAIN seq}

AllPrompts == UNION {Range(Prompts(s)) : s \in Steps}

InStep(s) == pc \in Range(Prompts(s))

Last(seq) == seq[Len(seq)]

Count(seq, x) == Cardinality({i \in DOMAIN seq : seq[i] = x})

NoDuplicates(seq) == \A i, j \in DOMAIN seq : i # j => seq[i] # seq[j]

Persisted == progress_file.kind = "json"

\* The persisted record holds exactly the in-memory progress.
PersistedIs(p) == Persisted /\ \A f \in Fields : progress_file.data[f] = p[f]

IsSlug(n) ==
    /\ n # <<>>
    /\ \A i \in DOMAIN n : n[i] \in SlugChars
    /\ n[1] # "-"
    /\ n[Len(n)] # "-"
    /\ \A i \in 1..(Len(n) - 1) : ~(n[i] = "-" /\ n[i + 1] = "-")

\* C1: completed_services, in memory and in the persisted record, never holds
\* a step identifier twice, and when the loop tests its condition every step
\* below current_step has its identifier in it exactly once.
C1_CompletedOnce ==
    /\ NoDuplicates(progress.completed_services)
    /\ Persisted => NoDuplicates(progress_file.data.completed_services)
    /\ pc = "loop" =>
          \A s \in 1..(progress.current_step - 1) :
              Count(progress.completed_services, StepId(s)) = 1

\* C2: in a run that resumed at step s and has completed no step since, at
\* every prompt (where an interrupt would end the run) the persisted
\* current_step and completed_services are the ones found at the resume.
C2_ResumeIdempotent ==
    (/\ pc \in AllPrompts
     /\ resumed.kind = "json"
     /\ progress.current_step = resumed.data.current_step)
    => /\ Persisted
       /\ progress_file.data.current_step = resumed.data.current_step
       /\ progress_file.data.completed_services = resumed.data.completed_services

\* While step s > 1 executes, the persisted current_step is s.
C3_PersistedStep ==
    \A s \in Steps : (s > 1 /\ InStep(s)) =>
        Persisted /\ progress_file.data.current_step = s

\* A run that finds a persisted current_step > 1 offers resume; resume keeps
\* the persisted step, and the loop then enters that step at its first prompt
\* with no handler locals.
C3_Reenter ==
    /\ (pc = "idle" /\ pc' # "idle" /\ Persisted
        /\ progress_file.data.current_step > 1)
       => (pc' = "ask_resume"
           /\ progress'.current_step = progress_file.data.current_step)
    /\ (pc = "ask_resume" /\ pc' = "loop")
       => (progress'.current_step = progress_file.data.current_step
           /\ progress_file' = progress_file)
    /\ (pc = "loop" /\ pc' \notin {"loop", "idle"})
       => (/\ progress.current_step \in Steps
           /\ pc' = Prompts(progress.current_step)[1]
           /\ progress'.current_step = progress.current_step
           /\ locals' = EmptyMap)

\* C3: a run interrupted inside step s > 1 leaves current_step = s persisted;
\* the next run offers resume, and resume re-enters step s at its first prompt.
C3_ResumeSameStep == [](C3_PersistedStep) /\ [][C3_Reenter]_vars

C3_Witness ==
    /\ runs >= 2
    /\ resumed.kind = "json"
    /\ resumed.data.current_step = 3
    /\ pc = "s3_neon"

InLoop == pc = "loop" \/ pc \in AllPrompts

\* The step taken is the normal return of the handler of the current step.
HandlerReturns ==
    /\ progress.current_step \in Steps
    /\ pc = Last(Prompts(progress.current_step))
    /\ pc' = "loop"

C4_Step ==
    /\ (InLoop /\ pc' # "idle") =>
          /\ progress'.current_step \in
                {progress.current_step, progress.current_step + 1}
          /\ (progress'.current_step = progress.current_step + 1) <=> HandlerReturns
    /\ (InLoop /\ pc' = "idle" /\ exit_code' = 1) => progress_file' = progress_file
    /\ (pc = "loop" /\ pc' \in AllPrompts) => progress.current_step <= total_steps
    /\ (pc = "loop" /\ pc' = "idle" /\ exit_code' = 0) =>
          progress.current_step = total_steps + 1

\* C4: inside the step loop current_step changes only by +1, exactly when the
\* handler of the current step returns; an interrupted handler leaves the
\* persisted record as it is; the loop calls a handler only while
\* current_step <= total_steps and ends when it is total_steps + 1.
C4_StepCounter == [][C4_Step]_vars

C4_Witness == pc = "loop" /\ progress.current_step = total_steps + 1

\* C5: at every prompt of a handler the persisted record is the one that was
\* persisted when the handler was entered.
C5_NoSaveInsideStep == pc \in AllPrompts => progress_file = entered

\* C6: when the loop is about to call the next handler, the persisted record
\* equals the in-memory progress (with the advanced current_step).
C6_SavedBeforeNextStep == pc = "loop" => PersistedIs(progress)

C6_Witness ==
    /\ pc = "loop"
    /\ progress.current_step = 5
    /\ Persisted
    /\ progress_file.data.current_step = 5

C7_Choice ==
    /\ (pc = "idle" /\ pc' # "idle")
       => \/ pc' = "get_name"
          \/ (/\ pc' = "ask_resume"
              /\ Persisted
              /\ progress_file.data.current_step > 1
              /\ PersistedIs(progress'))
    /\ (pc = "idle" /\ pc' # "idle" /\ Persisted
        /\ progress_file.data.current_step > 1) => pc' = "ask_resume"
    /\ pc = "ask_resume"
       => \/ (pc' = "ask_resume" /\ UNCHANGED <<progress, progress_file>>)
          \/ (/\ pc' = "loop"
              /\ UNCHANGED <<progress, progress_file>>
              /\ PersistedIs(progress))
          \/ (/\ pc' = "get_name"
              /\ progress' = SetupProgress
              /\ progress_file'.kind = "absent")
          \/ (pc' = "idle" /\ exit_code' = 1 /\ UNCHANGED progress_file)

\* C7: a persisted current_step > 1 leads to the resume question before any
\* step; its outcomes are resume (the persisted record is the progress,
\* unchanged, and the loop starts) and discard (the record is removed, the
\* progress is a new SetupProgress and the project name is asked for).
C7_ResumeOrDiscard == [][C7_Choice]_vars

C7_Witness ==
    /\ pc = "loop"
    /\ resumed.kind = "json"
    /\ progress.current_step = 4
    /\ progress.project_name = <<"a", "-", "b">>

C8_NameFirst ==
    (pc = "loop" \/ pc \in AllPrompts)
    => /\ IsSlug(progress.project_name)
       /\ Persisted
       /\ progress_file.data.project_name = progress.project_name

C8_FreshStart ==
    /\ (pc = "idle" /\ pc' # "idle" /\ progress_file.kind = "absent")
       => (pc' = "get_name" /\ progress' = SetupProgress)
    /\ pc = "get_name" => pc' \in {"get_name", "loop", "idle"}
    /\ pc' \in AllPrompts => pc \in AllPrompts \cup {"loop"}

\* C8: with no persisted record the run starts from SetupProgress() at the
\* project-name prompt, and whenever a handler runs the project name is a
\* slug that has been saved.
C8_FreshRun == [](C8_NameFirst) /\ [][C8_FreshStart]_vars

C8_Witness ==
    /\ runs = 1
    /\ pc = "s1_fork"
    /\ progress.current_step = 1
    /\ progress.project_name = <<"a", "-", "b">>

C9_Completed ==
    (pc = "idle" /\ exit_code = 0)
    => /\ progress_file.kind = "absent"
       /\ load_progress(progress_file).kind = "none"
       /\ env_local.kind = "text"
       /\ env_prod.kind = "text"

C9_Completes ==
    /\ (pc = "loop" /\ progress.current_step > total_steps /\ exit_code' # 1)
       => (/\ pc' = "idle"
           /\ exit_code' = 0
           /\ env_local' = DocText(EnvContent(progress))
           /\ progress_file'.kind = "absent")
    /\ (pc = "idle" /\ exit_code = 0 /\ pc' # "idle")
       => (/\ pc' = "get_name"
           /\ progress' = SetupProgress)

\* C9: when the loop ends the .env document is written, the persisted record
\* is removed and the process exits with 0; the next run finds no progress
\* and starts from SetupProgress() at the project-name prompt.
C9_CompletionClears == [](C9_Completed) /\ [][C9_Completes]_vars

C9_Witness == pc = "idle" /\ exit_code = 0 /\ runs >= 1

C10_Exit ==
    /\ (pc # "idle" /\ pc' = "idle") => exit_code' \in {0, 1}
    /\ (pc # "idle" /\ pc' = "idle" /\ exit_code' = 1 /\ Persisted)
       => progress_file'.kind = "json"
    /\ exit_code' = 0
       => (pc = "loop" /\ progress.current_step > total_steps) \/ exit_code = 0

\* C10: every end of the process other than full completion has exit code 1
\* and leaves a persisted record on disk as a complete record; exit code 0 is
\* the end of a run whose step loop finished.
C10_ExitPreservesState == [][C10_Exit]_vars

\* C11: at every instant, an interrupt inside a save included, the persisted
\* file is absent or holds a complete record (the previous one or the new
\* one), never an empty or partial document.
C11_AtomicSave == progress_file.kind \in {"absent", "json"}

\* The prompts whose answer is followed by a save.
SavePoints == {"get_name", "s4_bus_id"} \cup {Last(Prompts(s)) : s \in Steps}

\* In memory, every step below current_step has its identifier recorded.
C12_InMemory ==
    InLoop => \A s \in 1..(progress.current_step - 1) :
                  StepId(s) \in Range(progress.completed_services)

C12_Step ==
    /\ (pc \in SavePoints /\ faults' < faults /\ pc' # "idle")
       => /\ progress_file' \in {progress_file, FileCorrupt}
          /\ pc = "get_name"
             => /\ pc' = "loop"
                /\ IsSlug(progress'.project_name)
                /\ progress' = [progress EXCEPT !.project_name = progress'.project_name]
          /\ pc = "s4_bus_id"
             => /\ pc' = "s4_token"
                /\ progress'.current_step = progress.current_step
          /\ pc \in {Last(Prompts(s)) : s \in Steps}
             => /\ pc' = "loop"
                /\ progress'.current_step = progress.current_step + 1
                /\ StepId(progress.current_step) \in
                       Range(progress'.completed_services)
    /\ (pc \in SavePoints /\ faults' < faults /\ pc' = "idle")
       => progress_file'.kind = "corrupt"

\* C12: a save that fails with an I/O error persists nothing new and does not
\* end the run: the handler's updates stay in memory, current_step advances
\* and the loop goes on; the only fault that ends a run at a save is an
\* interrupt inside the write.
C12_FailedSaveContinues == [](C12_InMemory) /\ [][C12_Step]_vars

\* A single run that met a fault and still completed.
C12_Witness == pc = "idle" /\ exit_code = 0 /\ runs = 1 /\ faults < MaxFaults

\* A SetupProgress with its five fields and current_step in its range.
IsValidProgress(p) ==
    /\ DOMAIN p = Fields
    /\ p.current_step \in 1..(total_steps + 1)

\* C13: whatever the progress file holds, load returns none or a SetupProgress
\* that is structurally valid (current_step in 1 .. total_steps + 1).
C13_LoadValid ==
    pc = "loaded"
    => \/ locals.result.kind = "none"
       \/ locals.result.kind = "some" /\ IsValidProgress(locals.result.value)

\* C14: in memory and in the persisted record, current_step is at least 1 and
\* at most total_steps + 1.
C14_StepRange ==
    /\ progress.current_step \in 1..(total_steps + 1)
    /\ Persisted => progress_file.data.current_step \in 1..(total_steps + 1)

C14_Witness ==
    /\ pc = "loop"
    /\ progress.current_step = total_steps + 1
    /\ Persisted
    /\ progress_file.data.current_step = total_steps + 1

C15_Cleared ==
    pc = "cleared"
    => /\ progress_file = FileAbsent
       /\ load_progress(progress_file) = None

C15_Step ==
    /\ (pc \in StorePcs /\ pc' = "cleared" /\ progress_file = FileAbsent)
       => progress_file' = FileAbsent
    /\ (pc = "cleared" /\ pc' = "loaded")
       => /\ locals'.result = None
          /\ progress' = SetupProgress

\* C15: after clear the store is empty whatever it held, a load that follows
\* returns none, and clear on an empty store leaves it empty.
C15_ClearThenLoad == [](C15_Cleared) /\ [][C15_Step]_vars

\* clear has removed a persisted record.
C15_Witness ==
    /\ pc = "cleared"
    /\ entered.kind = "json"
    /\ progress_file.kind = "absent"

\* The file holds a complete record: all five fields.
CompleteRecord(file) == file.kind = "json" /\ DOMAIN file.data = Fields

C16_Saved ==
    pc = "saved"
    => /\ CompleteRecord(progress_file)
       /\ load_progress(progress_file).kind = "some"
       /\ \A f \in Fields : load_progress(progress_file).value[f] = progress[f]

C16_Step ==
    /\ (pc = "saved" /\ pc' = "loaded")
       => /\ locals'.result = Some(progress)
          /\ progress' = progress
    /\ (pc = "loaded" /\ pc' = "saved" /\ CompleteRecord(progress_file))
       => progress_file' = progress_file

TypedName == locals.raw

\* C17: the name returned for an accepted line is returned unchanged when it
\* is typed again, and what the conversion leaves of a rejected line is
\* rejected too.
C17_Idempotent ==
    /\ ReadProjectName(TypedName).kind = "some"
       => ReadProjectName(ReadProjectName(TypedName).value) =
             ReadProjectName(TypedName)
    /\ ReadProjectName(TypedName).kind = "none"
       => ReadProjectName(KebabCase(Strip(TypedName))) = None
    /\ pc = "loop"
       => ReadProjectName(progress.project_name) = Some(progress.project_name)

\* An accepted line that the conversion changed.
C17_Witness ==
    /\ pc = "loop"
    /\ TypedName = <<"A", " ", "_", "1">>
    /\ progress.project_name = <<"a", "-", "1">>

C18_Slug == IsSlug(TypedName) => ReadProjectName(TypedName) = Some(TypedName)

C18_Step ==
    (pc = "get_name" /\ IsSlug(TypedName) /\ pc' = "loop")
    => progress'.project_name = TypedName

\* C18: a line that is a slug already (runs of [a-z0-9] joined by single
\* hyphens) is accepted and returned as it is.
C18_IdentityOnSlugs == [](C18_Slug) /\ [][C18_Step]_vars

C18_Witness ==
    /\ pc = "loop"
    /\ TypedName = <<"a", "-", "1", "a">>
    /\ progress.project_name = TypedName

\* The algorithm as specified: lowercase, spaces and underscores to hyphens,
\* other characters dropped, hyphen runs collapsed, outer hyphens stripped.
SpecifiedName(raw) ==
    StripHyphens(CollapseHyphens(RemoveSpecial(
        Replace(Replace(LowerStr(raw), " ", "-"), "_", "-"))))

C19_Result ==
    /\ ReadProjectName(TypedName) =
          IF SpecifiedName(TypedName) # <<>> THEN Some(SpecifiedName(TypedName))
          ELSE None
    /\ ReadProjectName(TypedName).kind = "some"
       => IsSlug(ReadProjectName(TypedName).value)
    /\ pc = "loop" => /\ progress.project_name = SpecifiedName(TypedName)
                      /\ IsSlug(progress.project_name)

C19_Step ==
    (pc = "get_name" /\ SpecifiedName(TypedName) = <<>>) => pc' = "get_name"

\* C19: the name returned is the result of the specified algorithm, whose
\* collapse and strip steps come in the other order; an accepted name is a
\* non-empty slug; a line whose result is empty is rejected and asked again.
C19_SpecifiedAlgorithm == [](C19_Result) /\ [][C19_Step]_vars

\* A line with outer hyphens and a hyphen run, accepted.
C19_Witness ==
    /\ pc = "loop"
    /\ TypedName = <<"-", "a", "_", "-">>
    /\ progress.project_name = <<"a">>

\* url is https://github.com/<owner>/<name> or the same with one slash after
\* it, <owner> being a non-empty segment without a slash.
ExactForkUrl(url, name) ==
    \E n \in 1..Len(url) :
        \E rest \in {name, name \o <<"/">>} :
            /\ Len(url) = 1 + n + 1 + Len(rest)
            /\ url[1] = "https://github.com/"
            /\ \A i \in 2..(n + 1) : url[i] \notin SlashSymbols
            /\ url[n + 2] = "/"
            /\ SubSeq(url, n + 3, Len(url)) = rest

\* The line typed at the URL prompt, as step 1 passes it on.
TypedUrl == Strip(locals.url)

C20_Validation ==
    pc = "s1_url"
    => /\ validate_github_url(TypedUrl, progress.project_name)
          <=> ExactForkUrl(TypedUrl, progress.project_name)
       /\ "github_repo_url" \notin DOMAIN progress.api_keys

C20_Step ==
    /\ (pc = "s1_url" /\ pc' = "loop")
       => /\ ExactForkUrl(TypedUrl, progress.project_name)
          /\ progress'.api_keys = Put(progress.api_keys, "github_repo_url", TypedUrl)
    /\ (pc = "s1_url" /\ ~ExactForkUrl(TypedUrl, progress.project_name))
       => /\ pc' = "s1_url"
          /\ progress' = progress

\* C20: step 1 accepts the typed URL exactly when it is
\* https://github.com/<owner>/<project_name> with at most one slash after it,
\* and stores github_repo_url only then; any other line is asked again.
C20_ForkUrl == [](C20_Validation) /\ [][C20_Step]_vars

\* A URL with the slash after the name, accepted and stored.
C20_Witness ==
    /\ pc = "loop"
    /\ progress.project_name = <<"a", "b">>
    /\ "github_repo_url" \in DOMAIN progress.api_keys
    /\ progress.api_keys["github_repo_url"] =
          <<"https://github.com/", "b", "/", "a", "b", "/">>

\* The literal prefixes the prompts of steps 4, 5 and 6 test for.
SecretPrefixes ==
    {<<"polar_oat_">>, <<"pk_test_">>, <<"pk_live_">>, <<"sk_test_">>,
     <<"sk_live_">>, <<"whsec_">>, <<"re_">>}

\* The api_keys entry k, when present, starts with one of the prefixes.
Prefixed(keys, k, prefixes) ==
    k \in DOMAIN keys => \E q \in prefixes : StartsWith(keys[k], q)

\* C21: every token-shaped secret held in api_keys starts with the literal
\* prefix of its provider: the billing token, the authentication keys, the
\* email key and both webhook signing secrets (for the billing one, with any
\* of the literal prefixes).
C21_PrefixedSecrets ==
    /\ Prefixed(progress.api_keys, "polar_access_token", {<<"polar_oat_">>})
    /\ Prefixed(progress.api_keys, "clerk_publishable_key",
                {<<"pk_test_">>, <<"pk_live_">>})
    /\ Prefixed(progress.api_keys, "clerk_secret_key",
                {<<"sk_test_">>, <<"sk_live_">>})
    /\ Prefixed(progress.api_keys, "clerk_webhook_secret", {<<"whsec_">>})
    /\ Prefixed(progress.api_keys, "resend_api_key", {<<"re_">>})
    /\ Prefixed(progress.api_keys, "polar_webhook_secret", SecretPrefixes)

\* The prompts whose answer is tested, and the test of each on the answer
\* as typed.
ValidatedPrompts == {st.pc : st \in PromptStates}

InputValid(prompt, typed, name) ==
    LET v == Strip(typed) IN
    CASE prompt = "s1_url" -> validate_github_url(v, name)
      [] prompt = "s2_url" -> VercelUrlValid(v, name)
      [] prompt = "s4_env" -> YesNoValid(LowerStr(v))
      [] prompt \in {"s4_org_slug", "s4_pro_id", "s4_bus_id", "s4_webhook"} ->
            NonEmptyValid(v)
      [] prompt = "s4_token" -> PolarTokenValid(v)
      [] prompt = "s5_pk" -> ClerkPkValid(v)
      [] prompt = "s5_sk" -> ClerkSkValid(v)
      [] prompt = "s5_webhook" -> ClerkWebhookValid(v)
      [] prompt = "s6_key" -> ResendKeyValid(v)
      [] prompt = "s7_dsn" -> SentryDsnValid(v)

TypedFails ==
    /\ pc \in ValidatedPrompts
    /\ "typed" \in DOMAIN locals
    /\ ~InputValid(pc, locals.typed, progress.project_name)

\* C22: at every prompt with a validation predicate, an answer that fails the
\* predicate changes neither the progress (current_step, completed_services,
\* api_keys, service_configs) nor the progress file, does not end the run and
\* leaves the wizard at the same prompt; the wizard leaves a prompt, and the
\* step is finished, only on an answer that satisfies the predicate.
C22_FailureReprompts ==
    [][/\ TypedFails =>
            /\ pc' = pc
            /\ progress' = progress
            /\ progress_file' = progress_file
            /\ exit_code' = exit_code
       /\ pc \in ValidatedPrompts /\ pc' # pc =>
            InputValid(pc, locals.typed, progress.project_name)
       /\ progress'.current_step = progress.current_step + 1 =>
            /\ InputValid(pc, locals.typed, progress.project_name)
            /\ pc = Last(Prompts(progress.current_step))]_vars

\* A publishable key was accepted, and the same line, typed at the prompt of
\* the secret key, fails its test: that prompt is asked again.
C22_Witness ==
    /\ pc = "s5_sk"
    /\ "publishable_key" \in DOMAIN locals
    /\ locals.typed = locals.publishable_key
    /\ TypedFails

\* An action that renders a document: .env.prod is written on the way to the
\* prompt of step 8, .env as the run completes.
RendersProd == pc = "loop" /\ pc' = "s8_added"

RendersLocal == pc = "loop" /\ pc' = "idle" /\ exit_code' = 0

\* C23: rendering an environment document does not mutate the state: the
\* SetupProgress after rendering .env.prod is the one before it, and .env is
\* rendered from the progress of the completed run, which it leaves as it is
\* (the process then ends).
C23_RenderingKeepsState ==
    [][/\ RendersProd => progress' = progress
       /\ RendersLocal => /\ progress.current_step = total_steps + 1
                          /\ env_local' = DocText(EnvContent(progress))]_vars

\* Where each covered variable of the documents is held: a key of api_keys,
\* or a credential of a service configuration.
CoveredVars ==
    {[var |-> "NEXT_PUBLIC_CLERK_PUBLISHABLE_KEY", in |-> "api_keys",
      key |-> "clerk_publishable_key"],
     [var |-> "CLERK_SECRET_KEY", in |-> "api_keys", key |-> "clerk_secret_key"],
     [var |-> "CLERK_WEBHOOK_SECRET", in |-> "api_keys",
      key |-> "clerk_webhook_secret"],
     [var |-> "POLAR_ACCESS_TOKEN", in |-> "api_keys", key |-> "polar_access_token"],
     [var |-> "POLAR_ENVIRONMENT", in |-> "polar", key |-> "environment"],
     [var |-> "POLAR_ORGANIZATION_ID", in |-> "polar", key |-> "organization_slug"],
     [var |-> "POLAR_PRO_PRODUCT_ID", in |-> "polar", key |-> "pro_product_id"],
     [var |-> "POLAR_BUSINESS_PRODUCT_ID", in |-> "polar",
      key |-> "business_product_id"],
     [var |-> "POLAR_WEBHOOK_SECRET", in |-> "api_keys",
      key |-> "polar_webhook_secret"],
     [var |-> "NEXT_PUBLIC_SENTRY_DSN", in |-> "api_keys", key |-> "sentry_dsn"],
     [var |-> "RESEND_API_KEY", in |-> "api_keys", key |-> "resend_api_key"],
     [var |-> "RESEND_FROM_EMAIL", in |-> "api_keys", key |-> "resend_from_email"],
     [var |-> "RESEND_FROM_NAME", in |-> "api_keys", key |-> "resend_from_name"],
     [var |-> "RESEND_REPLY_TO", in |-> "api_keys", key |-> "resend_reply_to"],
     [var |-> "NEXT_PUBLIC_APP_URL", in |-> "vercel", key |-> "project_url"],
     [var |-> "CRON_SECRET", in |-> "api_keys", key |-> "cron_secret"]}

\* The store of p a covered variable is held in.
HeldIn(p, c) == IF c.in = "api_keys" THEN p.api_keys ELSE Credentials(p, c.in)

\* The document doc agrees with the progress p it was rendered from: a held
\* value is the value of its variable, and a variable with no held value has
\* what the document of an empty progress has (the placeholder, or no line).
TakesHeldValues(doc, p, placeholders) ==
    \A c \in CoveredVars :
        IF c.key \in DOMAIN HeldIn(p, c)
        THEN c.var \in DOMAIN doc /\ doc[c.var] = HeldIn(p, c)[c.key]
        ELSE IF c.var \in DOMAIN placeholders
        THEN c.var \in DOMAIN doc /\ doc[c.var] = placeholders[c.var]
        ELSE c.var \notin DOMAIN doc

\* C24: in .env.prod and in .env every covered variable has the value held
\* in api_keys or service_configs when there is one, and the fixed placeholder
\* only when there is none.
C24_DocumentsTakeHeldValues ==
    [][/\ RendersProd =>
            TakesHeldValues(env_prod'.vars, progress', EnvProdContent(SetupProgress))
       /\ RendersLocal =>
            TakesHeldValues(env_local'.vars, progress, EnvContent(SetupProgress))]_vars

\* The step each key of api_keys and of service_configs belongs to.
KeyOwner ==
    [github_repo_url |-> 1,
     polar_access_token |-> 4, polar_webhook_secret |-> 4,
     clerk_publishable_key |-> 5, clerk_secret_key |-> 5,
     clerk_webhook_secret |-> 5,
     resend_api_key |-> 6, resend_from_email |-> 6, resend_from_name |-> 6,
     resend_reply_to |-> 6,
     sentry_dsn |-> 7,
     cron_secret |-> 8]

ConfigOwner == [vercel |-> 2, polar |-> 4]

\* The step whose handler is running, or is about to be called by the loop.
RunningStep ==
    IF pc \in AllPrompts THEN CHOOSE s \in Steps : InStep(s)
    ELSE progress.current_step

\* The entries of m that belong to other steps than s are the same in n.
OthersKept(m, n, owner, s) ==
    /\ DOMAIN m \subseteq DOMAIN owner
    /\ DOMAIN n \subseteq DOMAIN owner
    /\ \A k \in DOMAIN owner :
          owner[k] # s =>
              /\ k \in DOMAIN m <=> k \in DOMAIN n
              /\ k \in DOMAIN m => n[k] = m[k]

IsPrefix(a, b) == Len(a) <= Len(b) /\ SubSeq(b, 1, Len(a)) = a

C25_Step ==
    /\ (InLoop /\ pc' # "idle") =>
          /\ OthersKept(progress.api_keys, progress'.api_keys, KeyOwner, RunningStep)
          /\ OthersKept(progress.service_configs, progress'.service_configs,
                        ConfigOwner, RunningStep)
          /\ IsPrefix(progress.completed_services, progress'.completed_services)
    /\ (pc = "ask_resume" /\ pc' = "loop") => progress' = progress

\* What the steps before the running one wrote is in the progress file, so
\* that a run interrupted now finds it on resume.
C25_EarlierPersisted ==
    InLoop =>
        /\ Persisted
        /\ \A k \in DOMAIN progress.api_keys :
              KeyOwner[k] < RunningStep =>
                  /\ k \in DOMAIN progress_file.data.api_keys
                  /\ progress_file.data.api_keys[k] = progress.api_keys[k]
        /\ \A k \in DOMAIN progress.service_configs :
              ConfigOwner[k] < RunningStep =>
                  /\ k \in DOMAIN progress_file.data.service_configs
                  /\ progress_file.data.service_configs[k] = progress.service_configs[k]
        /\ IsPrefix(progress_file.data.completed_services,
                    progress.completed_services)

\* C25: a step sets only its own keys: while step s runs, every entry of
\* api_keys and of service_configs that belongs to another step stays as it
\* is and nothing is removed from completed_services; what earlier steps
\* wrote is persisted and is what a resumed run continues with.
C25_OwnKeysOnly == [](C25_EarlierPersisted) /\ [][C25_Step]_vars

\* Step 6 runs in a resumed run with the entries of steps 1, 2, 4 and 5.
C25_Witness ==
    /\ pc = "s6_from_name"
    /\ resumed.kind = "json"
    /\ DOMAIN progress.api_keys =
          {k \in DOMAIN KeyOwner : KeyOwner[k] \in {1, 4, 5}}
             \cup {"resend_api_key", "resend_from_email"}
    /\ DOMAIN progress.service_configs = DOMAIN ConfigOwner

C26_Step ==
    /\ (InLoop /\ pc' # "idle") => progress'.project_name = progress.project_name
    /\ (pc = "get_name" /\ pc' = "loop") =>
          /\ progress.project_name = <<>>
          /\ progress'.project_name # <<>>
    /\ (pc = "ask_resume" /\ pc' \in {"loop", "get_name"}) =>
          \/ progress'.project_name = progress.project_name
          \/ progress' = SetupProgress /\ progress_file'.kind = "absent"

C26_NameOfRun ==
    /\ pc \in AllPrompts =>
          progress.project_name # <<>> /\ IsSlug(progress.project_name)
    /\ (InLoop /\ resumed.kind = "json") =>
          progress.project_name = resumed.data.project_name

\* C26: once the project name is set in a run it stays the same until the
\* run ends; a resumed run continues with the persisted name; and at every
\* prompt of a step handler the name is non-empty and a slug.
C26_NameImmutable == [](C26_NameOfRun) /\ [][C26_Step]_vars

\* A resumed run, past several steps, with the name chosen in the first run.
C26_Witness ==
    /\ runs = 2
    /\ resumed.kind = "json"
    /\ resumed.data.project_name = <<"a", "-", "b">>
    /\ pc = "s5_pk"
    /\ progress.project_name = <<"a", "-", "b">>

\* The operator declines the resume: the loaded progress is discarded.
Discards == pc = "ask_resume" /\ progress' = SetupProgress

C27_Step ==
    /\ (pc # "idle" /\ pc' # "idle" /\ ~Discards) =>
          IsPrefix(progress.completed_services, progress'.completed_services)
    /\ (pc = "idle" /\ pc' = "ask_resume") =>
          progress'.completed_services = progress_file.data.completed_services

\* C27: completed_services is append-only: in every step of a run that is
\* not the discard of the loaded progress, completed_services before the step
\* is a prefix of completed_services after it, and a run that offers resume
\* starts from the persisted sequence.
C27_AppendOnly == [][C27_Step]_vars

\* A resumed run that has appended to the sequence it loaded.
C27_Witness ==
    /\ runs = 2
    /\ resumed.kind = "json"
    /\ Len(resumed.data.completed_services) = 2
    /\ Len(progress.completed_services) = 4
    /\ pc = "loop"

\* The position of a prompt in the handler of step s.
PromptIndex(s, prompt) == CHOOSE i \in DOMAIN Prompts(s) : Prompts(s)[i] = prompt

C28_Step ==
    LET s == progress.current_step IN
    /\ (pc = "loop" /\ pc' \in AllPrompts) =>
          /\ s \in Steps
          /\ pc' = Prompts(s)[1]
          /\ progress'.current_step = s
          /\ \A t \in 1..(s - 1) : StepId(t) \in Range(progress.completed_services)
          /\ resumed.kind = "absent" =>
                \A t \in s..total_steps :
                    StepId(t) \notin Range(progress.completed_services)
    /\ (pc \in AllPrompts /\ pc' \in AllPrompts) =>
          /\ pc' \in Range(Prompts(s))
          /\ PromptIndex(s, pc') \in {PromptIndex(s, pc), PromptIndex(s, pc) + 1}
          /\ progress'.current_step = s
    /\ (pc \in AllPrompts /\ pc' = "loop") =>
          /\ pc = Last(Prompts(s))
          /\ progress'.current_step = s + 1
          /\ StepId(s) \in Range(progress'.completed_services)
    /\ (pc = "loop" /\ pc' = "idle" /\ exit_code' = 0) =>
          \A t \in Steps : StepId(t) \in Range(progress.completed_services)

\* While a handler runs it is the handler of current_step.
C28_HandlerOfStep ==
    pc \in AllPrompts => progress.current_step \in Steps /\ InStep(progress.current_step)

\* C28: the steps run in the order 1..total_steps: the loop calls the handler
\* of current_step; the handler of a step is called only when all steps below
\* it have completed; a handler runs its prompts in order and its return
\* moves current_step to the next step, so that in a run that is not a
\* resume no handler is called for a step that has completed, and a run
\* completes only with every step done.
C28_FixedOrder == [](C28_HandlerOfStep) /\ [][C28_Step]_vars

\* The first run, never interrupted, is in the handler of step 7.
C28_Witness ==
    /\ runs = 1
    /\ pc = "s7_dsn"
    /\ progress.current_step = 7
    /\ Len(progress.completed_services) = 6

Done ==
    /\ pc = "idle"
    /\ exit_code = 0
    /\ env_prod.kind = "text"
    /\ env_local.kind = "text"
    /\ progress_file.kind = "absent"

\* Somewhere in a run, a step is possible that is not asking the same prompt
\* again.
CanProgress == pc # "idle" => ENABLED <<Operate>>_vars

\* C29: with an operator who never interrupts and at every prompt eventually
\* types a line the prompt accepts, a run that has started eventually ends
\* with exit code 0, both documents rendered and the progress file removed;
\* and a run is never stuck otherwise: at every point of it an accepted line
\* (or a step of the process) moves it on.
C29_Completes == [](CanProgress) /\ ((pc # "idle") ~> Done)

\* The run has passed the loop test with current_step = total_steps + 1.
C29_Witness ==
    /\ Done
    /\ runs = MaxRuns
    /\ env_local.vars["CRON_SECRET"] = env_prod.vars["CRON_SECRET"]

\* The prompts of steps 5 and 8 that come after the step has read
\* service_configs['vercel'] (lines 568-569 and 729-730, 767).
AfterVercelRead == {"s5_webhook", "s8_added"}

\* C30: step 5 and step 8 do not go on with an assumed value when
\* service_configs['vercel'] is missing: past the place where they read the
\* entry, the entry is there (otherwise the wizard has ended with a failure),
\* and .env.prod is not rendered with the placeholder for an application URL.
C30_PrerequisiteChecked ==
    /\ pc \in AfterVercelRead => "vercel" \in DOMAIN progress.service_configs
    /\ env_prod.kind = "text" =>
          env_prod.vars["NEXT_PUBLIC_APP_URL"] # <<"http://localhost:3000">>

\* The application URL of a project.
AppUrlOf(name) == <<"https://">> \o name \o <<".vercel.app">>

\* The record d holds the entry of step 2, with the URL of its project.
HasVercelEntry(d) ==
    /\ "vercel" \in DOMAIN d.service_configs
    /\ d.service_configs["vercel"].credentials.project_url = AppUrlOf(d.project_name)

C31_EntryPresent ==
    /\ progress.current_step > 2 => HasVercelEntry(progress)
    /\ (Persisted /\ progress_file.data.current_step > 2) =>
          HasVercelEntry(progress_file.data)

C31_Step ==
    RendersProd =>
        env_prod'.vars["NEXT_PUBLIC_APP_URL"] = AppUrlOf(progress.project_name)

\* C31: from a fresh start, through any completed steps, interrupts and
\* resumes, whenever current_step > 2 (in memory or persisted) the entry
\* service_configs['vercel'] is there and its project_url is
\* https://<project_name>.vercel.app, so that the URL step 8 renders is that
\* one and not the fallback.
C31_VercelEntry == [](C31_EntryPresent) /\ [][C31_Step]_vars

\* A resumed run is past step 5 and step 8 has rendered the URL of project 'a'.
C31_Witness ==
    /\ pc = "s8_added"
    /\ resumed.kind = "json"
    /\ resumed.data.current_step = 5
    /\ progress.project_name = <<"a">>
    /\ env_prod.kind = "text"
    /\ env_prod.vars["NEXT_PUBLIC_APP_URL"] = AppUrlOf(<<"a">>)

\* The step an identifier of completed_services belongs to.
StepIndex(id) == CHOOSE s \in Steps : StepId(s) = id

\* The identifiers of seq are those of steps, in the order of the steps.
InStepOrder(seq) ==
    /\ \A i \in DOMAIN seq : \E s \in Steps : StepId(s) = seq[i]
    /\ \A i, j \in DOMAIN seq : i < j => StepIndex(seq[i]) <= StepIndex(seq[j])

\* C32: whenever the loop of start tests its condition, completed_services
\* holds the identifier of every step below current_step, its identifiers are
\* in step order, and it holds no identifier of a step above current_step.
C32_CompletedBelow ==
    pc = "loop" =>
        /\ \A s \in Steps :
              s < progress.current_step =>
                  StepId(s) \in Range(progress.completed_services)
        /\ InStepOrder(progress.completed_services)
        /\ \A s \in Steps :
              s > progress.current_step =>
                  StepId(s) \notin Range(progress.completed_services)

\* The loop test after step 6, in a run resumed inside step 4.
C32_Witness ==
    /\ pc = "loop"
    /\ progress.current_step = 7
    /\ resumed.kind = "json"
    /\ resumed.data.current_step = 4
    /\ Range(progress.completed_services) = {StepId(s) : s \in 1..6}

\* The progress file an interrupted run left after the project name was
\* saved and before step 1 completed.
NameOnlyRecord ==
    /\ Persisted
    /\ progress_file.data.current_step = 1
    /\ progress_file.data.project_name # <<>>

\* C33: a run that finds a persisted record with current_step = 1 does not
\* offer resume: it starts from SetupProgress(), so the saved project name is
\* dropped, removes the progress file and asks for the project name; the
\* loop is entered only from there, with a name typed in this run.
C33_NoResumeAtStepOne ==
    [][/\ (pc = "idle" /\ pc' # "idle" /\ NameOnlyRecord) =>
            /\ pc' = "get_name"
            /\ progress' = SetupProgress
            /\ progress_file'.kind = "absent"
       /\ (pc = "get_name" /\ progress_file.kind = "absent" /\ pc' = "loop") =>
            /\ progress'.current_step = 1
            /\ progress'.project_name # <<>>
            /\ progress_file' = FileJson(to_dict(progress'))]_vars

\* An interrupted run has left the record of project 'a-b' at step 1, and a
\* next run can start.
C33_Witness ==
    /\ pc = "idle"
    /\ exit_code = 1
    /\ runs < MaxRuns
    /\ NameOnlyRecord
    /\ progress_file.data.project_name = <<"a", "-", "b">>
    /\ ENABLED Launch

\* C34: when a run completes, the CRON_SECRET it writes to .env is the
\* CRON_SECRET of .env.prod as last written, and both are
\* api_keys['cron_secret'], whatever interrupts, re-entries of step 8 and
\* resumes came before.
C34_SameCronSecret ==
    [][RendersLocal =>
          /\ "cron_secret" \in DOMAIN progress.api_keys
          /\ env_prod.kind = "text"
          /\ env_prod.vars["CRON_SECRET"] = progress.api_keys["cron_secret"]
          /\ env_local'.vars["CRON_SECRET"] = progress.api_keys["cron_secret"]
          /\ env_prod' = env_prod]_vars

\* A third run has completed after step 8 drew a secret other than the one of
\* the last completed run: both documents have the new one.
C34_Witness ==
    /\ pc = "idle"
    /\ exit_code = 0
    /\ runs = 3
    /\ env_prod.kind = "text"
    /\ env_local.kind = "text"
    /\ env_prod.vars["CRON_SECRET"] = <<"c2">>
    /\ env_local.vars["CRON_SECRET"] = <<"c2">>

\* C35: calculate reports a division by zero and an unknown operation as two
\* distinct errors: dividing by b = 0 raises ZeroDivisionError, and an
\* operation that is none of add, subtract, multiply, divide raises another
\* error and returns nothing.
C35_DistinctErrors ==
    (pc = "returned" /\ locals.fn = "calculate") =>
        /\ (locals.op = "divide" /\ locals.b = 0) =>
              locals.result = Raised("ZeroDivisionError")
        /\ locals.op \notin {"add", "subtract", "multiply", "divide"} =>
              /\ locals.result.kind = "raise"
              /\ locals.result.error # "ZeroDivisionError"

\* The amount a conversion call gave back, in thousandths.
ReturnedAmount ==
    IF locals.fn = "convert_endpoint" THEN locals.result.value.converted_amount
    ELSE locals.result.value

\* C36: a conversion gives an error and no result for a negative amount and
\* for a currency code outside the supported set, and for every other call,
\* the two currencies being the same or not, the amount it returns is rounded
\* to 2 decimals (a whole number of hundredths).
C36_RoundedOrRejected ==
    (pc = "returned" /\ locals.fn \in {"convert_currency", "convert_endpoint"}) =>
        IF \/ locals.amount < 0
           \/ UpperStr(locals.from_currency) \notin Currency
           \/ UpperStr(locals.to_currency) \notin Currency
        THEN locals.result.kind = "raise"
        ELSE /\ locals.result.kind = "return"
             /\ ReturnedAmount % 10 = 0
====
